---- MODULE Spec2Model ----
(***************************************************************************)
(* habbr: posts, hierarchical comments and the per-post comment notifier.  *)
(* The model follows internal/service (post, comment, subscription) over   *)
(* the two repository backends (internal/repository/memory and postgres).  *)
(***************************************************************************)
EXTENDS Integers, Sequences, FiniteSets, TLC

VARIABLES
    backend,      \* "memory" | "sql": the repository bundle given to NewManager
    posts,        \* post store: id -> row
    comments,     \* comment store: id -> row
    nextPostID,   \* uuid.New() for posts: the next fresh id
    nextCommentID,\* uuid.New() for comments: the next fresh id
    now,          \* time.Now()
    subscribers,  \* Service.subscribers: postID -> subscriberID -> Subscriber
    chans,        \* every channel made by SubscribeToComments: id -> [buf, closed]
    metrics,      \* Service.metrics
    nextSubID,    \* uuid.New() for subscribers
    pending,      \* the comment-service call that has written and not yet notified
    publishers,   \* the callers of Publish: id -> position in notifySubscribers
    monitors,     \* the monitorContext goroutines: subscriberID -> [post, pc]
    received,     \* what the holder of each channel has taken from it, in order
    emitted,      \* the comment ids each caller of Publish has published, in order
    snapshotSum,  \* subscribers copied by the publishes so far, summed
    cleanups,     \* passes of cleanupIdleSubscribers so far
    closed,       \* Close has returned
    tree,         \* the last call of BuildCommentsTree: its input and its result
    decoded,      \* the last call of decodeCursor: its input and its result
    calls,        \* DeletePost and CreateComment calls between their repository calls
    mu,           \* Service.mu of the subscription service: its writer and its readers
    running,      \* the calls of the subscription service around s.mu: goroutine -> position
    updaters      \* UpdatePost calls between their repository calls

vars == <<backend, posts, comments, nextPostID, nextCommentID, now,
          subscribers, chans, metrics, nextSubID, pending,
          publishers, monitors, received, emitted, snapshotSum, cleanups, closed,
          tree, decoded, calls, mu, running, updaters>>

\* The goroutines around the notifier and what is recorded about them
procs == <<publishers, monitors, received, emitted, snapshotSum, cleanups, closed>>

\* The calls followed on their own, outside the stores and the notifier
aside == <<tree, decoded, calls, mu, running, updaters>>

----------------------------------------------------------------------------
(* Bounds of the model *)

MaxPosts == 2          \* posts ever created
MaxComments == 3       \* comments ever created
MaxSubscribers == 2    \* subscriptions ever created
MaxMessages == 2       \* no comment mutation starts once this many sends were counted
maxDepth == 2          \* Service.maxDepth, 50 in the code, scaled down
channelSize == 1       \* Service.channelSize, 100 in the code, scaled down
MaxTime == 1           \* the clock stops here, in units of cleanupInterval
maxIdleTime == 0       \* Service.maxIdleTime, 60 minutes in the code, scaled down
MaxCleanups == 1       \* ticks of the cleanup ticker
MaxCursorLength == 3

MaxCommentLength == 2000
MaxTitleLength == 200
MaxPostLength == 50000
maxPageSize == 100
defaultPostLimit == 20
maxPostLimit == 100
defaultCommentLimit == 50
maxCommentLimit == 200

Nil == 0               \* uuid.Nil
NoParent == -1         \* ParentID == nil
Users == {1, 2}
PostIDs == 1..MaxPosts
CommentIDs == 1..MaxComments
SubIDs == 1..MaxSubscribers
PubIDs == {1, 2}       \* two concurrent callers of Publish
Callers == {Nil} \cup Users                 \* author ids a caller may pass
AnyPostID == 0..MaxPosts                   \* post ids a caller may pass
AnyCommentID == 0..MaxComments             \* comment ids a caller may pass
AnyParent == {NoParent} \cup AnyCommentID  \* parent ids a caller may pass

\* Contents a caller may send; "" and " " are empty after trimming.
Contents == {"", " ", "a", " a ", " b "}

\* strings.TrimSpace on the contents above
TrimSpace(s) ==
    CASE s = " " -> ""
      [] s = " a " -> "a"
      [] s = " b " -> "b"
      [] OTHER -> s

----------------------------------------------------------------------------
(* Results of a service call *)

OK == "OK"
VALIDATION == "VALIDATION_ERROR"
NOT_FOUND == "NOT_FOUND"
FORBIDDEN == "FORBIDDEN"
INTERNAL == "INTERNAL_ERROR"
PANIC == "PANIC"      \* nil pointer dereference in the handler

\* The zero value of model.Comment with the given ids (the DELETED payload).
ZeroComment(id, post) ==
    [ID |-> id, PostID |-> post, ParentID |-> NoParent, Content |-> "",
     AuthorID |-> Nil, Depth |-> 0, CreatedAt |-> 0, UpdatedAt |-> 0]

NoPayload == [PostID |-> Nil, ActionType |-> "", Comment |-> ZeroComment(Nil, Nil)]
NoPending == [op |-> "none", payload |-> NoPayload]

----------------------------------------------------------------------------
(* Map helpers: Go maps as functions whose domain is the set of keys *)

Put(m, k, v) == [x \in DOMAIN m \cup {k} |-> IF x = k THEN v ELSE m[x]]
Drop(m, ks) == [x \in DOMAIN m \ ks |-> m[x]]
EmptyMap == [x \in {} |-> 0]


----------------------------------------------------------------------------
(* Domain model: validators and constructors *)

\* CommentInput.Validate
CommentInputValid(post, content, author) ==
    /\ TrimSpace(content) # ""
    /\ Len(content) <= MaxCommentLength
    /\ post # Nil
    /\ author # Nil

\* CommentUpdateInput.Validate; content is {} (nil) or {s}
CommentUpdateInputValid(content) ==
    \A s \in content : TrimSpace(s) # "" /\ Len(s) <= MaxCommentLength

\* PostInput.Validate
PostInputValid(title, content, author) ==
    /\ TrimSpace(title) # ""
    /\ Len(title) <= MaxTitleLength
    /\ TrimSpace(content) # ""
    /\ Len(content) <= MaxPostLength
    /\ author # Nil

\* PostUpdateInput.Validate; title and content are {} (nil) or {s}
PostUpdateInputValid(title, content) ==
    /\ \A s \in title : TrimSpace(s) # "" /\ Len(s) <= MaxTitleLength
    /\ \A s \in content : TrimSpace(s) # "" /\ Len(s) <= MaxPostLength

\* NewPost
NewPost(title, content, author, enabled) ==
    [Title |-> TrimSpace(title), Content |-> TrimSpace(content),
     AuthorID |-> author, CommentsEnabled |-> enabled,
     CreatedAt |-> now, UpdatedAt |-> now]

\* Variant of Post.Update that stamps both instants
PostUpdate_Recreated(p, title, content, enabled) ==
    [p EXCEPT !.CommentsEnabled = IF enabled = {} THEN @ ELSE CHOOSE b \in enabled : TRUE,
              !.CreatedAt = now, !.UpdatedAt = now]

\* Post.Update: only the supplied fields change, UpdatedAt becomes now
PostUpdate(p, title, content, enabled) ==
    [p EXCEPT !.Title = IF title = {} THEN @ ELSE TrimSpace(CHOOSE s \in title : TRUE),
              !.Content = IF content = {} THEN @ ELSE TrimSpace(CHOOSE s \in content : TRUE),
              !.CommentsEnabled = IF enabled = {} THEN @ ELSE CHOOSE b \in enabled : TRUE,
              !.UpdatedAt = now]

\* NewComment
NewComment(post, parent, content, author, depth) ==
    [PostID |-> post, ParentID |-> parent, Content |-> TrimSpace(content),
     AuthorID |-> author, Depth |-> depth, CreatedAt |-> now, UpdatedAt |-> now]

\* Comment.Update
CommentUpdate(c, content) ==
    [c EXCEPT !.Content = IF content = {} THEN @ ELSE TrimSpace(CHOOSE s \in content : TRUE),
              !.UpdatedAt = now]

\* A stored row as the domain comment the notifier carries
WithID(id, row) ==
    [ID |-> id, PostID |-> row.PostID, ParentID |-> row.ParentID,
     Content |-> row.Content, AuthorID |-> row.AuthorID, Depth |-> row.Depth,
     CreatedAt |-> row.CreatedAt, UpdatedAt |-> row.UpdatedAt]

----------------------------------------------------------------------------
(* Repositories *)

\* PostRepository.GetByID / CommentRepository.GetByID: what comes back for id.
\* postgres maps pgx.ErrNoRows to repository.ErrNotFound; memory returns
\* (nil, nil).
GetByID(rows, id) ==
    IF id \in DOMAIN rows THEN "row"
    ELSE IF backend = "sql" THEN "ErrNotFound" ELSE "nil"

\* The rows that ON DELETE CASCADE on parent_id removes along with ids
RECURSIVE Cascade(_, _)
Cascade(rows, ids) ==
    LET kids == {c \in DOMAIN rows : rows[c].ParentID \in ids} \ ids
    IN IF kids = {} THEN ids ELSE Cascade(rows, ids \cup kids)

\* CommentRepository.Delete of a stored id
CommentDelete(rows, id) ==
    IF backend = "sql" THEN Drop(rows, Cascade(rows, {id}))
    ELSE Drop(rows, {id})

\* CommentRepository.GetChildren: the direct children of id
GetChildren(rows, id) ==
    {c \in DOMAIN rows : rows[c].ParentID # NoParent /\ rows[c].ParentID = id}

\* Variant of DeleteByPostID that removes nothing
DeleteByPostID_Keeps(rows, post) == rows

\* CommentRepository.DeleteByPostID
DeleteByPostID(rows, post) ==
    Drop(rows, {c \in DOMAIN rows : rows[c].PostID = post})

\* PostRepository.Delete of a stored id, on the comment table: the foreign
\* key on post_id cascades in postgres; memory keeps the two maps apart.
PostDeleteCascade(rows, post) ==
    IF backend = "sql" THEN Drop(rows, {c \in DOMAIN rows : rows[c].PostID = post})
    ELSE rows

\* PostRepository.Update: memory stores the whole copy, postgres sets title,
\* content, comments_enabled and updated_at.
PostRepoUpdate(rows, id, p) ==
    IF backend = "sql"
    THEN [rows EXCEPT ![id] = [@ EXCEPT !.Title = p.Title, !.Content = p.Content,
                                        !.CommentsEnabled = p.CommentsEnabled,
                                        !.UpdatedAt = now]]
    ELSE [rows EXCEPT ![id] = [p EXCEPT !.UpdatedAt = now]]

\* CommentRepository.Update: memory stores the whole copy, postgres sets
\* content and updated_at.
CommentRepoUpdate(rows, id, c) ==
    IF backend = "sql"
    THEN [rows EXCEPT ![id] = [@ EXCEPT !.Content = c.Content, !.UpdatedAt = now]]
    ELSE [rows EXCEPT ![id] = [c EXCEPT !.UpdatedAt = now]]

----------------------------------------------------------------------------
(* What a handler returns, and the stores as it leaves them *)

\* return nil, err: nothing written, nothing published
Fail(res, field) ==
    [res |-> res, field |-> field, posts |-> posts, comments |-> comments,
     payload |-> NoPayload]

\* return value, nil: the stores after the repository writes, the payload
\* handed to the notifier (NoPayload when the handler notifies nobody)
Done(ps, cs, payload) ==
    [res |-> OK, field |-> "", posts |-> ps, comments |-> cs, payload |-> payload]

----------------------------------------------------------------------------
(* Post service *)

CreatePost(title, content, author, enabled) ==
    IF ~PostInputValid(title, content, author) THEN Fail(VALIDATION, "input")
    ELSE Done(Put(posts, nextPostID, NewPost(title, content, author, enabled)),
              comments, NoPayload)

\* post.ID.String() on the nil post of the memory repository panics
GetPost(id) ==
    IF id = Nil THEN Fail(VALIDATION, "id")
    ELSE IF GetByID(posts, id) = "ErrNotFound" THEN Fail(NOT_FOUND, "")
    ELSE IF GetByID(posts, id) = "nil" THEN Fail(PANIC, "")
    ELSE Done(posts, comments, NoPayload)

UpdatePost(id, title, content, enabled, author) ==
    IF ~PostUpdateInputValid(title, content) THEN Fail(VALIDATION, "input")
    ELSE IF id = Nil THEN Fail(VALIDATION, "id")
    ELSE IF author = Nil THEN Fail(VALIDATION, "author_id")
    ELSE IF GetPost(id).res # OK THEN GetPost(id)
    ELSE IF posts[id].AuthorID # author THEN Fail(FORBIDDEN, "")
    ELSE Done(PostRepoUpdate(posts, id, PostUpdate(posts[id], title, content, enabled)),
              comments, NoPayload)

DeletePost(id, author) ==
    IF id = Nil THEN Fail(VALIDATION, "id")
    ELSE IF author = Nil THEN Fail(VALIDATION, "author_id")
    ELSE IF GetPost(id).res # OK THEN GetPost(id)
    ELSE IF posts[id].AuthorID # author THEN Fail(FORBIDDEN, "")
    ELSE Done(Drop(posts, {id}),
              PostDeleteCascade(DeleteByPostID(comments, id), id), NoPayload)

----------------------------------------------------------------------------
(* Comment service *)

Payload(post, action, comment) ==
    [PostID |-> post, ActionType |-> action, Comment |-> comment]

\* Variant of CommentDepth that copies the parent's depth
CommentDepth_Same(parent) ==
    IF parent = NoParent THEN 0 ELSE comments[parent].Depth

\* depth := 0; with a parent, depth = parentComment.Depth + 1
CommentDepth(parent) ==
    IF parent = NoParent THEN 0 ELSE comments[parent].Depth + 1

\* Variant of CheckParent that accepts one level more
CheckParent_Deeper(post, parent) ==
    IF parent = NoParent THEN Done(posts, comments, NoPayload)
    ELSE IF GetByID(comments, parent) = "ErrNotFound" THEN Fail(NOT_FOUND, "")
    ELSE IF GetByID(comments, parent) = "nil" THEN Fail(PANIC, "")
    ELSE IF comments[parent].PostID # post THEN Fail(VALIDATION, "parent_id")
    ELSE IF CommentDepth(parent) > maxDepth + 1 THEN Fail(VALIDATION, "depth")
    ELSE Done(posts, comments, NoPayload)

\* Variant of CheckParent that takes a parent of any post
CheckParent_AnyPost(post, parent) ==
    IF parent = NoParent THEN Done(posts, comments, NoPayload)
    ELSE IF GetByID(comments, parent) = "ErrNotFound" THEN Fail(NOT_FOUND, "")
    ELSE IF GetByID(comments, parent) = "nil" THEN Fail(PANIC, "")
    ELSE IF CommentDepth(parent) > maxDepth THEN Fail(VALIDATION, "depth")
    ELSE Done(posts, comments, NoPayload)

\* The checks of CreateComment on the parent, once the post allows comments
CheckParent(post, parent) ==
    IF parent = NoParent THEN Done(posts, comments, NoPayload)
    ELSE IF GetByID(comments, parent) = "ErrNotFound" THEN Fail(NOT_FOUND, "")
    ELSE IF GetByID(comments, parent) = "nil" THEN Fail(PANIC, "")
    ELSE IF comments[parent].PostID # post THEN Fail(VALIDATION, "parent_id")
    ELSE IF CommentDepth(parent) > maxDepth THEN Fail(VALIDATION, "depth")
    ELSE Done(posts, comments, NoPayload)

\* Variant of CheckPost that does not read comments_enabled
CheckPost_Open(post) ==
    IF GetByID(posts, post) = "ErrNotFound" THEN Fail(NOT_FOUND, "")
    ELSE IF GetByID(posts, post) = "nil" THEN Fail(PANIC, "")
    ELSE Done(posts, comments, NoPayload)

\* The check of CreateComment on the post
CheckPost(post) ==
    IF GetByID(posts, post) = "ErrNotFound" THEN Fail(NOT_FOUND, "")
    ELSE IF GetByID(posts, post) = "nil" THEN Fail(PANIC, "")
    ELSE IF ~posts[post].CommentsEnabled THEN Fail(FORBIDDEN, "")
    ELSE Done(posts, comments, NoPayload)

CreateComment(post, parent, content, author) ==
    IF ~CommentInputValid(post, content, author) THEN Fail(VALIDATION, "input")
    ELSE IF CheckPost(post).res # OK THEN CheckPost(post)
    ELSE IF CheckParent(post, parent).res # OK THEN CheckParent(post, parent)
    ELSE LET row == NewComment(post, parent, content, author, CommentDepth(parent))
         IN Done(posts, Put(comments, nextCommentID, row),
                 Payload(post, "CREATED", WithID(nextCommentID, row)))

\* comment.ID.String() on the nil comment of the memory repository panics
GetComment(id) ==
    IF id = Nil THEN Fail(VALIDATION, "id")
    ELSE IF GetByID(comments, id) = "ErrNotFound" THEN Fail(NOT_FOUND, "")
    ELSE IF GetByID(comments, id) = "nil" THEN Fail(PANIC, "")
    ELSE Done(posts, comments, NoPayload)

UpdateComment(id, content, author) ==
    IF ~CommentUpdateInputValid(content) THEN Fail(VALIDATION, "input")
    ELSE IF id = Nil THEN Fail(VALIDATION, "id")
    ELSE IF author = Nil THEN Fail(VALIDATION, "author_id")
    ELSE IF GetComment(id).res # OK THEN GetComment(id)
    ELSE IF comments[id].AuthorID # author THEN Fail(FORBIDDEN, "")
    ELSE LET c == CommentUpdate(comments[id], content)
         IN Done(posts, CommentRepoUpdate(comments, id, c),
                 Payload(c.PostID, "UPDATED", WithID(id, c)))

\* for _, child := range children { commentRepo.Delete(child.ID) }
RECURSIVE DeleteEach(_, _)
DeleteEach(rows, ids) ==
    IF ids = {} THEN rows
    ELSE LET k == CHOOSE x \in ids : TRUE
         IN DeleteEach(CommentDelete(rows, k), ids \ {k})

\* Variant of DeleteComment without the ownership check
DeleteComment_AnyCaller(id, author) ==
    IF id = Nil THEN Fail(VALIDATION, "id")
    ELSE IF author = Nil THEN Fail(VALIDATION, "author_id")
    ELSE IF GetComment(id).res # OK THEN GetComment(id)
    ELSE Done(posts,
              CommentDelete(DeleteEach(comments, GetChildren(comments, id)), id),
              Payload(comments[id].PostID, "DELETED",
                      ZeroComment(id, comments[id].PostID)))

\* Variant of DeleteComment that removes the caller's own replies only
DeleteComment_OwnReplies(id, author) ==
    IF id = Nil THEN Fail(VALIDATION, "id")
    ELSE IF author = Nil THEN Fail(VALIDATION, "author_id")
    ELSE IF GetComment(id).res # OK THEN GetComment(id)
    ELSE IF comments[id].AuthorID # author THEN Fail(FORBIDDEN, "")
    ELSE Done(posts,
              Drop(comments,
                   {id} \cup {c \in GetChildren(comments, id) :
                                 comments[c].AuthorID = author}),
              Payload(comments[id].PostID, "DELETED",
                      ZeroComment(id, comments[id].PostID)))

\* Variant of DeleteComment that publishes the stored comment
DeleteComment_FullPayload(id, author) ==
    IF id = Nil THEN Fail(VALIDATION, "id")
    ELSE IF author = Nil THEN Fail(VALIDATION, "author_id")
    ELSE IF GetComment(id).res # OK THEN GetComment(id)
    ELSE IF comments[id].AuthorID # author THEN Fail(FORBIDDEN, "")
    ELSE Done(posts,
              CommentDelete(DeleteEach(comments, GetChildren(comments, id)), id),
              Payload(comments[id].PostID, "DELETED", WithID(id, comments[id])))

DeleteComment(id, author) ==
    IF id = Nil THEN Fail(VALIDATION, "id")
    ELSE IF author = Nil THEN Fail(VALIDATION, "author_id")
    ELSE IF GetComment(id).res # OK THEN GetComment(id)
    ELSE IF comments[id].AuthorID # author THEN Fail(FORBIDDEN, "")
    ELSE Done(posts,
              CommentDelete(DeleteEach(comments, GetChildren(comments, id)), id),
              Payload(comments[id].PostID, "DELETED",
                      ZeroComment(id, comments[id].PostID)))

\* CommentRepository.GetByPostID
GetByPostID(rows, post) ==
    {c \in DOMAIN rows : rows[c].PostID = post}

\* The second loop of BuildCommentsTree from position i on: a root goes to
\* the roots, a reply to the children of its parent when commentMap holds
\* the parent, and is skipped otherwise
RECURSIVE BuildFrom(_, _, _)
BuildFrom(list, i, acc) ==
    IF i > Len(list) THEN acc
    ELSE LET c == list[i]
         IN BuildFrom(list, i + 1,
               IF c.ParentID = NoParent
               THEN [acc EXCEPT !.roots = Append(@, c.ID)]
               ELSE IF c.ParentID \in DOMAIN acc.children
               THEN [acc EXCEPT !.children[c.ParentID] = Append(@, c.ID)]
               ELSE acc)

\* Variant of BuildCommentsTree that takes every comment for a root
BuildCommentsTree_Flat(list) ==
    [roots |-> [i \in 1..Len(list) |-> list[i].ID],
     children |-> [id \in {list[i].ID : i \in 1..Len(list)} |-> <<>>]]

\* BuildCommentsTree over a flat list of comments: the ids of the roots in
\* order, and for every comment of the list the ids of its Children in order
BuildCommentsTree(list) ==
    IF Len(list) = 0 THEN [roots |-> <<>>, children |-> EmptyMap]
    ELSE BuildFrom(list, 1,
                   [roots |-> <<>>,
                    children |-> [id \in {list[i].ID : i \in 1..Len(list)} |-> <<>>]])

\* The closure flatten of FlattenCommentsTree: every comment of the list is
\* appended, and its Children after it when it has any
RECURSIVE flatten(_, _)
flatten(t, ids) ==
    IF ids = <<>> THEN <<>>
    ELSE LET comment == Head(ids)
         IN <<comment>>
            \o (IF Len(t.children[comment]) > 0
                THEN flatten(t, t.children[comment]) ELSE <<>>)
            \o flatten(t, Tail(ids))

\* Variant of FlattenCommentsTree that stops at the roots
FlattenCommentsTree_Roots(t) == t.roots

\* FlattenCommentsTree: the comments of a tree, every parent before its
\* children
FlattenCommentsTree(t) == flatten(t, t.roots)

\* ids in ascending order: the order of created_at, ids being given in the
\* order of creation
RECURSIVE Ascending(_)
Ascending(ids) ==
    IF ids = {} THEN <<>>
    ELSE LET least == CHOOSE c \in ids : \A d \in ids : c <= d
         IN <<least>> \o Ascending(ids \ {least})

\* What GetByPostID hands to BuildCommentsTree
FlatList(ids) ==
    LET order == Ascending(ids)
    IN [i \in 1..Len(order) |-> WithID(order[i], comments[order[i]])]

\* The orders in which List may hand out the comments ids: sortComments
\* orders by created_at only, so comments created at the same instant come
\* in any order
Orderings(ids) ==
    {order \in [1..Cardinality(ids) -> ids] :
        \A i, j \in 1..Cardinality(ids) : order[i] = order[j] => i = j}

\* The stored comments of a sequence of ids, as a flat list
Listed(order) == [i \in 1..Len(order) |-> WithID(order[i], comments[order[i]])]

\* The comments that hang under a root of a tree
RECURSIVE TreeMembers(_, _)
TreeMembers(t, found) ==
    LET more == {c \in DOMAIN t.children \ found :
                   \E f \in found : \E i \in 1..Len(t.children[f]) : t.children[f][i] = c}
    IN IF more = {} THEN found ELSE TreeMembers(t, found \cup more)

\* GetCommentsTree: the comments of the returned tree ({} with an error)
GetCommentsTree(post) ==
    IF post = Nil \/ post \notin DOMAIN posts THEN {}
    ELSE LET t == BuildCommentsTree(FlatList(GetByPostID(comments, post)))
         IN TreeMembers(t, {t.roots[i] : i \in 1..Len(t.roots)})

----------------------------------------------------------------------------
(* Cursors *)

\* A cursor blob: whether it is well-formed Base64, and the text it decodes
\* to, a sequence of characters
Digits == {"0", "1", "2", "3"}
Chars == {"0", "1", "_", "x", "u1"}       \* "u1" stands for the text of a UUID

\* fmt.Sprintf("%d", n) for the instants of the model
Decimal(n) == <<CHOOSE d \in Digits : d = ToString(n)>>

\* id.String()
UUIDString(id) == <<"u" \o ToString(id)>>

\* base64 of "%d_%s" with CreatedAt.Unix() and ID.String()
encodeCursor(createdAt, id) ==
    [b64 |-> TRUE, text |-> Decimal(createdAt) \o <<"_">> \o UUIDString(id)]

\* strings.Index: the position before the first ch, -1 without any
Index(text, ch) ==
    IF \E i \in 1..Len(text) : text[i] = ch
    THEN (CHOOSE i \in 1..Len(text) :
            text[i] = ch /\ \A k \in 1..(i - 1) : text[k] # ch) - 1
    ELSE -1

\* strconv.ParseInt(s, 10, 64) succeeds
IsDecimal(text) == Len(text) > 0 /\ \A i \in 1..Len(text) : text[i] \in Digits

\* uuid.Parse succeeds
IsUUID(text) ==
    Len(text) = 1 /\ \E id \in 0..(MaxComments + MaxPosts) : text = UUIDString(id)

\* decodeCursor: the error it returns, OK, or PANIC for the slice
\* parts[:strings.Index(parts, "_")] with index -1
decodeCursor(cursor) ==
    IF ~cursor.b64 THEN "invalid cursor"
    ELSE LET parts == cursor.text
             sep == Index(parts, "_")
         IN IF sep = -1 THEN PANIC
            ELSE IF ~IsDecimal(SubSeq(parts, 1, sep))
            THEN "invalid cursor timestamp"
            ELSE IF ~IsUUID(SubSeq(parts, sep + 2, Len(parts)))
            THEN "invalid cursor UUID"
            ELSE OK

----------------------------------------------------------------------------
(* Lists of posts and comments *)

\* a pointer argument is {} (nil) or {v}
Optional(S) == {{}} \cup {{x} : x \in S}

NoPagination == [First |-> {}, After |-> {}, Last |-> {}, Before |-> {}]

Min(a, b) == IF a < b THEN a ELSE b

\* Variant of validatePagination that lets first and last come together
validatePagination_Both(pagination) ==
    IF \E n \in pagination.First : n < 0 \/ n > maxPageSize THEN "first"
    ELSE IF \E n \in pagination.Last : n < 0 \/ n > maxPageSize THEN "last"
    ELSE ""

\* validatePagination of both services: the field of the validation error,
\* "" for nil
validatePagination(pagination) ==
    IF \E n \in pagination.First : n < 0 THEN "first"
    ELSE IF \E n \in pagination.First : n > maxPageSize THEN "first"
    ELSE IF \E n \in pagination.Last : n < 0 THEN "last"
    ELSE IF \E n \in pagination.Last : n > maxPageSize THEN "last"
    ELSE IF pagination.First # {} /\ pagination.Last # {} THEN "pagination"
    ELSE ""

\* The Limit both converters compute: First, then Last, each capped
Limit(pagination, default, cap) ==
    LET first == IF pagination.First = {} THEN default
                 ELSE Min(CHOOSE n \in pagination.First : TRUE, cap)
    IN IF pagination.Last = {} THEN first
       ELSE Min(CHOOSE n \in pagination.Last : TRUE, cap)

\* Variant of PostFilterToRepo that skips a row when After is supplied
PostFilterToRepo_After(filter, pagination) ==
    [AuthorID |-> filter.AuthorID, WithComments |-> filter.WithComments,
     OrderBy |-> "created_at", OrderDir |-> "desc",
     Limit |-> Limit(pagination, defaultPostLimit, maxPostLimit),
     Offset |-> IF pagination.After = {} THEN 0 ELSE 1]

\* converter.PostFilterToRepo; After and Before are not read
PostFilterToRepo(filter, pagination) ==
    [AuthorID |-> filter.AuthorID, WithComments |-> filter.WithComments,
     OrderBy |-> "created_at", OrderDir |-> "desc",
     Limit |-> Limit(pagination, defaultPostLimit, maxPostLimit), Offset |-> 0]

\* converter.CommentFilterToRepo; After and Before are not read
CommentFilterToRepo(filter, pagination) ==
    [PostID |-> filter.PostID, ParentID |-> filter.ParentID,
     AuthorID |-> filter.AuthorID, MaxDepth |-> filter.MaxDepth,
     OrderBy |-> "created_at", OrderDir |-> "asc",
     Limit |-> Limit(pagination, defaultCommentLimit, maxCommentLimit), Offset |-> 0]

\* The filtering of PostRepository.List and Count: the memory repository
\* looks at AuthorID only, postgres adds comments_enabled = WithComments
PostMatching(filter) ==
    {id \in DOMAIN posts :
        /\ \A a \in filter.AuthorID : posts[id].AuthorID = a
        /\ backend = "sql" =>
              \A w \in filter.WithComments : posts[id].CommentsEnabled = w}

\* The filtering of CommentRepository.List and Count. For ParentID the
\* memory repository takes a root comment as a match of the zero id, and
\* postgres compares parent_id, which is never equal for a root
CommentMatching(filter) ==
    {id \in DOMAIN comments :
        /\ \A p \in filter.PostID : comments[id].PostID = p
        /\ \A p \in filter.ParentID :
              IF comments[id].ParentID = NoParent
              THEN backend = "memory" /\ p = Nil
              ELSE comments[id].ParentID = p
        /\ \A a \in filter.AuthorID : comments[id].AuthorID = a
        /\ \A d \in filter.MaxDepth : comments[id].Depth <= d}

\* sortPosts / sortComments and ORDER BY created_at: the orders of ids that
\* follow created_at in direction dir, rows of one instant in any order
sortByCreatedAt(rows, ids, dir) ==
    {order \in Orderings(ids) :
        \A i, j \in 1..Len(order) :
           i < j => IF dir = "desc"
                    THEN rows[order[i]].CreatedAt >= rows[order[j]].CreatedAt
                    ELSE rows[order[i]].CreatedAt <= rows[order[j]].CreatedAt}

\* The page of a sorted list. memory slices [Offset, Offset + Limit);
\* postgres adds LIMIT only when Limit > 0 and OFFSET only when Offset > 0
Window(order, filter) ==
    IF backend = "memory"
    THEN IF filter.Offset >= Len(order) THEN <<>>
         ELSE SubSeq(order, filter.Offset + 1,
                     Min(filter.Offset + filter.Limit, Len(order)))
    ELSE LET rest == IF filter.Offset > 0
                     THEN SubSeq(order, filter.Offset + 1, Len(order))
                     ELSE order
         IN IF filter.Limit > 0
            THEN SubSeq(rest, 1, Min(filter.Limit, Len(rest)))
            ELSE rest

\* PostRepository.Count
PostCount(filter) == Cardinality(PostMatching(filter))

\* CommentRepository.Count
CommentCount(filter) == Cardinality(CommentMatching(filter))

\* The orders in which the repository may sort the posts of a filter
PostOrders(filter) ==
    sortByCreatedAt(posts, PostMatching(PostFilterToRepo(filter, NoPagination)), "desc")

\* The orders in which the repository may sort the comments of a filter
CommentOrders(filter) ==
    sortByCreatedAt(comments,
                    CommentMatching(CommentFilterToRepo(filter, NoPagination)), "asc")

\* HasNextPage as buildPostConnection and buildCommentConnection set it
HasNextPage(edges, pagination, totalCount) ==
    /\ Len(edges) > 0
    /\ \E n \in pagination.First : Len(edges) = n /\ totalCount > n

\* buildPostConnection / buildCommentConnection: the edges and the PageInfo
buildConnection(rows, page, pagination, totalCount) ==
    LET edges == [i \in 1..Len(page) |->
                    [Node |-> page[i],
                     Cursor |-> encodeCursor(rows[page[i]].CreatedAt, page[i])]]
    IN [edges |-> edges,
        pageInfo |->
           [HasNextPage |-> HasNextPage(edges, pagination, totalCount),
            HasPreviousPage |->
               /\ Len(edges) > 0
               /\ \E n \in pagination.Last : Len(edges) = n /\ totalCount > n,
            StartCursor |-> IF Len(edges) > 0 THEN {edges[1].Cursor} ELSE {},
            EndCursor |-> IF Len(edges) > 0 THEN {edges[Len(edges)].Cursor} ELSE {}]]

\* What ListPosts and ListComments return: the connection (pageInfo is {}
\* for nil) and the number of repository reads made
Listing(res, field, connection, reads) ==
    [res |-> res, field |-> field, edges |-> connection.edges,
     pageInfo |-> connection.pageInfo, reads |-> reads]

NoConnection == [edges |-> <<>>, pageInfo |-> {}]

\* Service.ListPosts, order being how the repository sorted the posts
ListPosts(filter, pagination, order) ==
    IF validatePagination(pagination) # ""
    THEN Listing(VALIDATION, validatePagination(pagination), NoConnection, 0)
    ELSE LET repoFilter == PostFilterToRepo(filter, pagination)
             connection == buildConnection(posts, Window(order, repoFilter),
                                           pagination, PostCount(repoFilter))
         IN Listing(OK, "", [connection EXCEPT !.pageInfo = {@}], 2)

\* Service.ListComments, order being how the repository sorted the comments
ListComments(filter, pagination, order) ==
    IF validatePagination(pagination) # ""
    THEN Listing(VALIDATION, validatePagination(pagination), NoConnection, 0)
    ELSE LET repoFilter == CommentFilterToRepo(filter, pagination)
             connection == buildConnection(comments, Window(order, repoFilter),
                                           pagination, CommentCount(repoFilter))
         IN Listing(OK, "", [connection EXCEPT !.pageInfo = {@}], 2)

\* A filter of comments by post only
CommentsOf(postFilter) ==
    [PostID |-> postFilter, ParentID |-> {}, AuthorID |-> {}, MaxDepth |-> {}]

----------------------------------------------------------------------------
(* Subscription service: the notifier *)

NewMetrics ==
    [TotalSubscribers |-> 0, ActiveConnections |-> EmptyMap, MessagesSent |-> 0,
     MessagesDropped |-> 0, SubscriptionsTotal |-> 0]

\* s.subscribers[postID], nil when the post has no entry
Subs(post) ==
    IF post \in DOMAIN subscribers THEN DOMAIN subscribers[post] ELSE {}

\* select { case <-ch: default: close(ch) }: a buffered payload is taken
\* and the channel is left open, an empty open channel is closed
safeCloseChannel(ch) ==
    IF ch.buf # <<>> THEN [ch EXCEPT !.buf = Tail(@)]
    ELSE [ch EXCEPT !.closed = TRUE]

\* Variant of CanSend that sends whatever the buffer holds
CanSend_Always(ch) == TRUE

\* select { case subscriber.Channel <- payload: default: }: the send goes
\* through when the buffer has room
CanSend(ch) == Len(ch.buf) < channelSize

\* Variant of notifySubscribers that sends to nobody
notifySubscribers_Silent(post, payload) ==
    [chans |-> chans, subscribers |-> subscribers, metrics |-> metrics]

\* notifySubscribers, run to its return: the channels, the registry and the
\* metrics as it leaves them
notifySubscribers(post, payload) ==
    LET sent == {s \in Subs(post) : CanSend(chans[s])}
        dropped == Subs(post) \ sent
    IN [chans |-> [s \in DOMAIN chans |->
                     IF s \in sent THEN [chans[s] EXCEPT !.buf = Append(@, payload)]
                     ELSE chans[s]],
        subscribers |-> [p \in DOMAIN subscribers |->
                           [s \in DOMAIN subscribers[p] |->
                              IF p = post /\ s \in sent
                              THEN [subscribers[p][s] EXCEPT !.LastSeen = now]
                              ELSE subscribers[p][s]]],
        metrics |-> [metrics EXCEPT !.MessagesSent = @ + Cardinality(sent),
                                    !.MessagesDropped = @ + Cardinality(dropped)]]

\* A caller of Publish outside notifySubscribers
\* No cursor decoded yet
NoCursor == [b64 |-> FALSE, text |-> <<>>]

\* The callers of CreateComment that run beside DeletePost
CreatorIDs == {1, 2}

\* The goroutines that call the subscription service
Goroutines == {1, 2}

\* s.mu held by nobody
Unlocked == [writer |-> Nil, readers |-> {}]

\* A goroutine outside the subscription service
IdleGoroutine ==
    [pc |-> "idle", op |-> "none", post |-> Nil, sub |-> Nil, copy |-> {},
     touch |-> Nil, sentCount |-> 0, droppedCount |-> 0]

\* The callers of UpdatePost that run beside each other
UpdaterIDs == {1, 2}

\* A call of UpdatePost that has not started
IdleUpdater ==
    [pc |-> "idle", id |-> Nil, title |-> {}, content |-> {}, enabled |-> {},
     post |-> {}, res |-> "none"]

\* A call of DeletePost / CreateComment that has not started
IdleDeleter == [pc |-> "idle", post |-> Nil, res |-> "none"]
IdleCreator == [pc |-> "idle", post |-> Nil, parent |-> NoParent, author |-> Nil,
                depth |-> 0, res |-> "none"]

IdlePublisher ==
    [pc |-> "idle", post |-> Nil, payload |-> NoPayload, copy |-> {},
     touch |-> Nil, sentCount |-> 0, droppedCount |-> 0]

----------------------------------------------------------------------------
(* The state after NewManager *)

Init ==
    /\ backend \in {"memory", "sql"}
    /\ posts = EmptyMap
    /\ comments = EmptyMap
    /\ nextPostID = 1
    /\ nextCommentID = 1
    /\ now = 0
    /\ subscribers = EmptyMap
    /\ chans = EmptyMap
    /\ metrics = NewMetrics
    /\ nextSubID = 1
    /\ pending = NoPending
    /\ publishers = [p \in PubIDs |-> IdlePublisher]
    /\ monitors = EmptyMap
    /\ received = EmptyMap
    /\ emitted = [p \in PubIDs |-> <<>>]
    /\ snapshotSum = 0
    /\ cleanups = 0
    /\ closed = FALSE
    /\ tree = [flat |-> <<>>, roots |-> <<>>, children |-> EmptyMap,
               flattened |-> <<>>]
    /\ decoded = [cursor |-> NoCursor, res |-> "none"]
    /\ calls = [deleter |-> IdleDeleter, creators |-> [c \in CreatorIDs |-> IdleCreator]]
    /\ mu = Unlocked
    /\ running = [g \in Goroutines |-> IdleGoroutine]
    /\ updaters = [u \in UpdaterIDs |-> IdleUpdater]

notifier == <<subscribers, chans, metrics, nextSubID>>

\* No comment mutation starts once MaxMessages sends were counted
Budget == metrics.MessagesSent + metrics.MessagesDropped < MaxMessages

----------------------------------------------------------------------------
(* Calls of the post service, each from entry to return *)

CallCreatePost(title, content, author, enabled) ==
    LET r == CreatePost(title, content, author, enabled)
    IN /\ pending.op = "none"
       /\ r.res = OK => nextPostID <= MaxPosts
       /\ posts' = r.posts
       /\ comments' = r.comments
       /\ nextPostID' = IF r.res = OK THEN nextPostID + 1 ELSE nextPostID
       /\ UNCHANGED <<aside, procs, backend, nextCommentID, now, notifier, pending>>

CallGetPost(id) ==
    LET r == GetPost(id)
    IN /\ pending.op = "none"
       /\ posts' = r.posts
       /\ comments' = r.comments
       /\ UNCHANGED <<aside, procs, backend, nextPostID, nextCommentID, now, notifier, pending>>

CallUpdatePost(id, title, content, enabled, author) ==
    LET r == UpdatePost(id, title, content, enabled, author)
    IN /\ pending.op = "none"
       /\ posts' = r.posts
       /\ comments' = r.comments
       /\ UNCHANGED <<aside, procs, backend, nextPostID, nextCommentID, now, notifier, pending>>

CallDeletePost(id, author) ==
    LET r == DeletePost(id, author)
    IN /\ pending.op = "none"
       /\ posts' = r.posts
       /\ comments' = r.comments
       /\ UNCHANGED <<aside, procs, backend, nextPostID, nextCommentID, now, notifier, pending>>

----------------------------------------------------------------------------
(* Calls of the comment service. A mutation runs in two steps: the checks  *)
(* and the repository write, then the notification and the return.         *)

CallCreateComment(post, parent, content, author) ==
    LET r == CreateComment(post, parent, content, author)
    IN /\ pending.op = "none"
       /\ r.res = OK => nextCommentID <= MaxComments /\ Budget
       /\ posts' = r.posts
       /\ comments' = r.comments
       /\ nextCommentID' = IF r.res = OK THEN nextCommentID + 1 ELSE nextCommentID
       /\ pending' = IF r.res = OK THEN [op |-> "CreateComment", payload |-> r.payload]
                     ELSE pending
       /\ UNCHANGED <<aside, procs, backend, nextPostID, now, notifier>>

CallGetComment(id) ==
    LET r == GetComment(id)
    IN /\ pending.op = "none"
       /\ posts' = r.posts
       /\ comments' = r.comments
       /\ UNCHANGED <<aside, procs, backend, nextPostID, nextCommentID, now, notifier, pending>>

CallUpdateComment(id, content, author) ==
    LET r == UpdateComment(id, content, author)
    IN /\ pending.op = "none"
       /\ r.res = OK => Budget
       /\ posts' = r.posts
       /\ comments' = r.comments
       /\ pending' = IF r.res = OK THEN [op |-> "UpdateComment", payload |-> r.payload]
                     ELSE pending
       /\ UNCHANGED <<aside, procs, backend, nextPostID, nextCommentID, now, notifier>>

CallDeleteComment(id, author) ==
    LET r == DeleteComment(id, author)
    IN /\ pending.op = "none"
       /\ r.res = OK => Budget
       /\ posts' = r.posts
       /\ comments' = r.comments
       /\ pending' = IF r.res = OK THEN [op |-> "DeleteComment", payload |-> r.payload]
                     ELSE pending
       /\ UNCHANGED <<aside, procs, backend, nextPostID, nextCommentID, now, notifier>>

\* s.subscriptionService.NotifyComment...(...) and the return of the call
NotifyAndReturn ==
    /\ pending.op # "none"
    /\ LET n == notifySubscribers(pending.payload.PostID, pending.payload)
       IN /\ chans' = n.chans
          /\ subscribers' = n.subscribers
          /\ metrics' = n.metrics
    /\ pending' = NoPending
    /\ UNCHANGED <<aside, procs, backend, posts, comments, nextPostID, nextCommentID, now, nextSubID>>

----------------------------------------------------------------------------
(* Calls of the subscription service, and a consumer *)

\* SubscribeToComments, with the goroutine it starts on the caller's context;
\* ctxDone says whether that context is already cancelled
\* (Subscriber.CreatedAt is only ever logged and is left out)
SubscribeToComments(post, ctxDone) ==
    /\ post # Nil
    /\ nextSubID <= MaxSubscribers
    /\ chans' = Put(chans, nextSubID, [buf |-> <<>>, closed |-> FALSE])
    /\ subscribers' = Put(subscribers, post,
                          Put(IF post \in DOMAIN subscribers THEN subscribers[post]
                              ELSE EmptyMap,
                              nextSubID, [LastSeen |-> now]))
    /\ metrics' = [metrics EXCEPT
                     !.TotalSubscribers = @ + 1,
                     !.ActiveConnections = Put(@, post, Cardinality(Subs(post)) + 1),
                     !.SubscriptionsTotal = @ + 1]
    /\ nextSubID' = nextSubID + 1
    /\ monitors' = Put(monitors, nextSubID,
                       [post |-> post,
                        pc |-> IF ctxDone THEN "cancelled" ELSE "waiting"])
    /\ received' = Put(received, nextSubID, <<>>)
    /\ UNCHANGED <<aside, backend, posts, comments, nextPostID, nextCommentID, now, pending,
                   publishers, emitted, snapshotSum, cleanups, closed>>

\* Variant of UnsubscribeLocked that lowers the counter for an unknown pair too
UnsubscribeLocked_Counts(post, sub) ==
    [res |-> OK, chans |-> chans, subscribers |-> subscribers,
     metrics |-> [metrics EXCEPT !.TotalSubscribers = @ - 1], closes |-> FALSE]

\* Variant of UnsubscribeLocked that closes the channel whoever holds it
UnsubscribeLocked_Recloses(post, sub) ==
    [res |-> OK,
     chans |-> [s \in DOMAIN chans |->
                  IF s = sub THEN [chans[s] EXCEPT !.closed = TRUE] ELSE chans[s]],
     subscribers |-> subscribers, metrics |-> metrics, closes |-> TRUE]

\* Variant of UnsubscribeLocked that keeps the entry of a post whose last
\* subscriber left, with a count of 0
UnsubscribeLocked_KeepsEntry(post, sub) ==
    IF sub \notin Subs(post)
    THEN [res |-> OK, chans |-> chans, subscribers |-> subscribers,
          metrics |-> metrics, closes |-> FALSE]
    ELSE [res |-> OK,
          chans |-> [chans EXCEPT ![sub] = safeCloseChannel(@)],
          subscribers |-> IF Subs(post) = {sub} THEN Drop(subscribers, {post})
                          ELSE [subscribers EXCEPT ![post] = Drop(@, {sub})],
          metrics |-> [metrics EXCEPT
                         !.TotalSubscribers = @ - 1,
                         !.ActiveConnections =
                             Put(@, post, Cardinality(Subs(post)) - 1)],
          closes |-> TRUE]

\* The body of Unsubscribe under s.mu: the channels, the registry and the
\* metrics as it leaves them, whether it called safeCloseChannel, and the
\* error it returns (none on any path)
UnsubscribeLocked(post, sub) ==
    IF sub \notin Subs(post)
    THEN [res |-> OK, chans |-> chans, subscribers |-> subscribers,
          metrics |-> metrics, closes |-> FALSE]
    ELSE [res |-> OK,
          chans |-> [chans EXCEPT ![sub] = safeCloseChannel(@)],
          subscribers |-> IF Subs(post) = {sub} THEN Drop(subscribers, {post})
                          ELSE [subscribers EXCEPT ![post] = Drop(@, {sub})],
          metrics |-> [metrics EXCEPT
                         !.TotalSubscribers = @ - 1,
                         !.ActiveConnections =
                             IF Subs(post) = {sub} THEN Drop(@, {post})
                             ELSE Put(@, post, Cardinality(Subs(post)) - 1)],
          closes |-> TRUE]

Unsubscribe(post, sub) ==
    LET u == UnsubscribeLocked(post, sub)
    IN /\ chans' = u.chans
       /\ subscribers' = u.subscribers
       /\ metrics' = u.metrics
       /\ UNCHANGED <<aside, procs, backend, posts, comments, nextPostID, nextCommentID, now,
                      nextSubID, pending>>

\* The holder of a channel takes the payload at its head
Receive(sub) ==
    /\ sub \in DOMAIN chans
    /\ chans[sub].buf # <<>>
    /\ chans' = [chans EXCEPT ![sub].buf = Tail(@)]
    /\ UNCHANGED <<aside, procs, backend, posts, comments, nextPostID, nextCommentID, now,
                   subscribers, metrics, nextSubID, pending>>

\* The holder of a channel takes the payload at its head and keeps it
Consume(sub) ==
    /\ sub \in DOMAIN chans
    /\ chans[sub].buf # <<>>
    /\ chans' = [chans EXCEPT ![sub].buf = Tail(@)]
    /\ received' = [received EXCEPT ![sub] = Append(@, Head(chans[sub].buf))]
    /\ UNCHANGED <<aside, backend, posts, comments, nextPostID, nextCommentID, now,
                   subscribers, metrics, nextSubID, pending,
                   publishers, monitors, emitted, snapshotSum, cleanups, closed>>

----------------------------------------------------------------------------
(* notifySubscribers step by step, as its locks divide it: the copy of the *)
(* post's subscribers under RLock, one send per copied subscriber outside  *)
(* the lock, the LastSeen update under Lock after a send that went         *)
(* through, and the metrics under Lock at the end.                         *)

\* The comment ids published so far
Published == UNION {{emitted[p][i] : i \in 1..Len(emitted[p])} : p \in PubIDs}

stores == <<backend, posts, comments, nextPostID, nextCommentID, pending, aside>>

\* Publish(postID, payload) up to the end of the RLock section
Publish(pub, post) ==
    LET id == Cardinality(Published) + 1
        payload == Payload(post, "CREATED", ZeroComment(id, post))
    IN /\ publishers[pub].pc = "idle"
       /\ id <= MaxMessages
       /\ emitted' = [emitted EXCEPT ![pub] = Append(@, id)]
       /\ snapshotSum' = snapshotSum + Cardinality(Subs(post))
       /\ publishers' = IF Subs(post) = {} THEN publishers
                        ELSE [publishers EXCEPT ![pub] =
                                [pc |-> "send", post |-> post, payload |-> payload,
                                 copy |-> Subs(post), touch |-> Nil,
                                 sentCount |-> 0, droppedCount |-> 0]]
       /\ UNCHANGED <<stores, now, subscribers, chans, metrics, nextSubID,
                      monitors, received, cleanups, closed>>

\* Variant of AfterSend that leaves the loop after the first subscriber
AfterSend_Early(copy) == "metrics"

\* Variant of Enqueue that puts the payload on the channel twice
Enqueue_Twice(buf, payload) == buf \o <<payload, payload>>

\* subscriber.Channel <- payload on a channel with room
Enqueue(buf, payload) == Append(buf, payload)

\* Where the loop over subscribersCopy goes once sub is done
AfterSend(copy) == IF copy = {} THEN "metrics" ELSE "send"

\* select { case subscriber.Channel <- payload: ... default: ... } for one
\* copied subscriber, in the order the map gave them. A send on a closed
\* channel panics, whatever the default case.
PublishSend(pub, sub) ==
    LET me == publishers[pub]
        rest == me.copy \ {sub}
    IN /\ me.pc = "send"
       /\ sub \in me.copy
       /\ IF chans[sub].closed
          THEN /\ publishers' = [publishers EXCEPT ![pub].pc = "panic"]
               /\ chans' = chans
          ELSE IF CanSend(chans[sub])
          THEN /\ chans' = [chans EXCEPT ![sub].buf = Enqueue(@, me.payload)]
               /\ publishers' = [publishers EXCEPT
                                   ![pub].pc = "touch", ![pub].touch = sub,
                                   ![pub].copy = rest,
                                   ![pub].sentCount = @ + 1]
          ELSE /\ chans' = chans
               /\ publishers' = [publishers EXCEPT
                                   ![pub].pc = AfterSend(rest), ![pub].copy = rest,
                                   ![pub].droppedCount = @ + 1]
       /\ UNCHANGED <<stores, now, subscribers, metrics, nextSubID,
                      monitors, received, emitted, snapshotSum, cleanups, closed>>

\* sub.LastSeen = time.Now() if the subscriber is still registered
PublishTouch(pub) ==
    LET me == publishers[pub]
    IN /\ me.pc = "touch"
       /\ subscribers' = IF me.touch \in Subs(me.post)
                         THEN [subscribers EXCEPT ![me.post][me.touch].LastSeen = now]
                         ELSE subscribers
       /\ publishers' = [publishers EXCEPT ![pub].pc = AfterSend(me.copy),
                                           ![pub].touch = Nil]
       /\ UNCHANGED <<stores, now, chans, metrics, nextSubID,
                      monitors, received, emitted, snapshotSum, cleanups, closed>>

\* s.metrics.MessagesSent += sentCount, MessagesDropped += droppedCount, return
PublishMetrics(pub) ==
    LET me == publishers[pub]
    IN /\ me.pc = "metrics"
       /\ metrics' = [metrics EXCEPT !.MessagesSent = @ + me.sentCount,
                                     !.MessagesDropped = @ + me.droppedCount]
       /\ publishers' = [publishers EXCEPT ![pub] = IdlePublisher]
       /\ UNCHANGED <<stores, now, subscribers, chans, nextSubID,
                      monitors, received, emitted, snapshotSum, cleanups, closed>>

----------------------------------------------------------------------------
(* Cancellation, the cleanup goroutine, the health check and Close *)

\* The caller of SubscribeToComments cancels its context
Cancel(sub) ==
    /\ sub \in DOMAIN monitors
    /\ monitors[sub].pc = "waiting"
    /\ monitors' = [monitors EXCEPT ![sub].pc = "cancelled"]
    /\ UNCHANGED <<stores, now, subscribers, chans, metrics, nextSubID,
                   publishers, received, emitted, snapshotSum, cleanups, closed>>

\* monitorContext after <-ctx.Done(): Unsubscribe and the end of the goroutine
monitorContext(sub) ==
    /\ sub \in DOMAIN monitors
    /\ monitors[sub].pc = "cancelled"
    /\ LET u == UnsubscribeLocked(monitors[sub].post, sub)
       IN /\ chans' = u.chans
          /\ subscribers' = u.subscribers
          /\ metrics' = u.metrics
    /\ monitors' = [monitors EXCEPT ![sub].pc = "returned"]
    /\ UNCHANGED <<stores, now, nextSubID,
                   publishers, received, emitted, snapshotSum, cleanups, closed>>

\* time passes, one cleanupInterval at a time
Tick ==
    /\ now < MaxTime
    /\ now' = now + 1
    /\ UNCHANGED <<stores, subscribers, chans, metrics, nextSubID, procs>>

\* Variant of Idle that keeps a subscriber whose channel is empty, as if
\* its consumer had just been seen
Idle_Consumed(post, sub) ==
    /\ now - subscribers[post][sub].LastSeen > maxIdleTime
    /\ chans[sub].buf # <<>>

\* now.Sub(subscriber.LastSeen) > s.maxIdleTime
Idle(post, sub) == now - subscribers[post][sub].LastSeen > maxIdleTime

\* The subscribers a cleanup pass removes
IdleSubscribers == UNION {{s \in Subs(p) : Idle(p, s)} : p \in DOMAIN subscribers}

\* One tick of startCleanupRoutine: cleanupIdleSubscribers under s.mu. The
\* loop ranges over ticker.C, which nothing stops or closes.
cleanupIdleSubscribers ==
    LET kept(p) == {s \in Subs(p) : ~Idle(p, s)}
        left == {p \in DOMAIN subscribers : kept(p) # {}}
    IN /\ cleanups < MaxCleanups
       /\ cleanups' = cleanups + 1
       /\ chans' = [s \in DOMAIN chans |->
                      IF s \in IdleSubscribers THEN safeCloseChannel(chans[s])
                      ELSE chans[s]]
       /\ subscribers' = [p \in left |-> [s \in kept(p) |-> subscribers[p][s]]]
       /\ metrics' = [metrics EXCEPT
                        !.TotalSubscribers = @ - Cardinality(IdleSubscribers),
                        !.ActiveConnections =
                            [p \in (DOMAIN @ \ DOMAIN subscribers) \cup left |->
                               IF p \in left THEN Cardinality(kept(p)) ELSE @[p]]]
       /\ UNCHANGED <<stores, now, nextSubID,
                      publishers, monitors, received, emitted, snapshotSum, closed>>

\* The subscriber records of the registry, over all post buckets
Registered == {<<p, s>> \in PostIDs \X SubIDs : s \in Subs(p)}

\* HealthCheck: the registry recounted against the counter
HealthCheck ==
    IF Cardinality(Registered) # metrics.TotalSubscribers THEN INTERNAL ELSE OK

\* Close, called by Manager.Close: every registered channel through
\* safeCloseChannel, the registry and the counters cleared
Close ==
    /\ ~closed
    /\ closed' = TRUE
    /\ chans' = [s \in DOMAIN chans |->
                   IF \E p \in DOMAIN subscribers : s \in Subs(p)
                   THEN safeCloseChannel(chans[s]) ELSE chans[s]]
    /\ subscribers' = EmptyMap
    /\ metrics' = [metrics EXCEPT !.TotalSubscribers = 0,
                                  !.ActiveConnections = EmptyMap]
    /\ UNCHANGED <<stores, now, nextSubID,
                   publishers, monitors, received, emitted, snapshotSum, cleanups>>

----------------------------------------------------------------------------
(* The services over the stores, nobody subscribed *)

Next ==
    \/ \E title \in {"", "a"}, enabled \in BOOLEAN :
         CallCreatePost(title, "a", 1, enabled)
    \/ \E id \in PostIDs : CallGetPost(id)
    \/ \E id \in PostIDs, enabled \in BOOLEAN, author \in Users :
         CallUpdatePost(id, {}, {}, {enabled}, author)
    \/ \E id \in PostIDs, author \in Users : CallDeletePost(id, author)
    \/ \E post \in PostIDs, parent \in {NoParent} \cup CommentIDs :
         CallCreateComment(post, parent, "a", 1)
    \/ \E id \in CommentIDs : CallGetComment(id)
    \/ \E id \in CommentIDs, author \in Users : CallUpdateComment(id, {" a "}, author)
    \/ \E id \in CommentIDs, author \in Users : CallDeleteComment(id, author)
    \/ NotifyAndReturn

Spec == Init /\ [][Next]_vars

----------------------------------------------------------------------------
(* The comment service with subscribers: subscriptions, cancellations and  *)
(* receives run between the write of a mutation and its notification.      *)
(* Mutations are those of root comments of posts that somebody follows     *)
(* when the call starts; unsubscribing happens while a call is under way.  *)

NotifyNext ==
    \/ CallCreatePost("a", "a", 1, TRUE)
    \/ \E post \in PostIDs :
         Subs(post) # {} /\ CallCreateComment(post, NoParent, "a", 1)
    \/ \E id \in DOMAIN comments :
         Subs(comments[id].PostID) # {} /\ CallUpdateComment(id, {" b "}, 1)
    \/ \E id \in DOMAIN comments :
         Subs(comments[id].PostID) # {} /\ CallDeleteComment(id, 1)
    \/ NotifyAndReturn
    \/ \E post \in PostIDs : SubscribeToComments(post, FALSE)
    \/ \E post \in PostIDs : \E sub \in Subs(post) :
         pending.op # "none" /\ Unsubscribe(post, sub)
    \/ \E sub \in SubIDs : Receive(sub)

NotifySpec == Init /\ [][NotifyNext]_vars

----------------------------------------------------------------------------
(* The notifier under concurrent callers of Publish and SubscribeToComments, *)
(* with the holders of the channels receiving. cmd/server wires the memory   *)
(* repositories; the stores play no part here.                               *)

NotifierInit == Init /\ backend = "memory"

PublishNext ==
    \/ \E post \in PostIDs : SubscribeToComments(post, FALSE)
    \/ \E pub \in PubIDs, post \in PostIDs : Publish(pub, post)
    \/ \E pub \in PubIDs, sub \in SubIDs : PublishSend(pub, sub)
    \/ \E pub \in PubIDs : PublishTouch(pub)
    \/ \E pub \in PubIDs : PublishMetrics(pub)
    \/ \E sub \in SubIDs : Receive(sub)

PublishSpec == NotifierInit /\ [][PublishNext]_vars

----------------------------------------------------------------------------
(* One caller of Publish, publishing one payload after another, with       *)
(* subscribers that come and go and keep what they take from their channel *)

OrderNext ==
    \/ \E post \in PostIDs : SubscribeToComments(post, FALSE)
    \/ \E post \in PostIDs : \E sub \in Subs(post) : Unsubscribe(post, sub)
    \/ \E post \in PostIDs : Publish(1, post)
    \/ \E sub \in SubIDs : PublishSend(1, sub)
    \/ PublishTouch(1)
    \/ PublishMetrics(1)
    \/ \E sub \in SubIDs : Consume(sub)

OrderSpec == NotifierInit /\ [][OrderNext]_vars

----------------------------------------------------------------------------
(* The notifier with everything that removes subscribers: Unsubscribe,     *)
(* cancelled contexts, the cleanup goroutine and Close. One caller of      *)
(* Publish runs against them.                                              *)

PubSubNext ==
    \/ \E post \in PostIDs, ctxDone \in BOOLEAN : SubscribeToComments(post, ctxDone)
    \/ \E post \in PostIDs : \E sub \in Subs(post) : Unsubscribe(post, sub)
    \/ \E sub \in SubIDs : Cancel(sub)
    \/ \E sub \in SubIDs : monitorContext(sub)
    \/ \E post \in PostIDs : Publish(1, post)
    \/ \E sub \in SubIDs : PublishSend(1, sub)
    \/ PublishTouch(1)
    \/ PublishMetrics(1)
    \/ \E sub \in SubIDs : Receive(sub)
    \/ Tick
    \/ cleanupIdleSubscribers
    \/ Close

PubSubSpec == NotifierInit /\ [][PubSubNext]_vars

----------------------------------------------------------------------------
(* BuildCommentsTree applied to flat lists of comments with distinct ids,  *)
(* in any order, with parents inside and outside the list                  *)

FlatLists ==
    {list \in UNION {[1..n -> [ID : CommentIDs, ParentID : AnyParent]] :
                       n \in 0..MaxComments} :
        \A i, j \in 1..Len(list) : list[i].ID = list[j].ID => i = j}

CallBuildCommentsTree(list) ==
    LET t == BuildCommentsTree(list)
    IN /\ tree' = [flat |-> list, roots |-> t.roots, children |-> t.children,
                   flattened |-> FlattenCommentsTree(t)]
       /\ UNCHANGED <<decoded, calls, mu, running, updaters, procs, backend, posts, comments, nextPostID, nextCommentID,
                      now, notifier, pending>>

\* one call in each behaviour
TreeNext == tree.flat = <<>> /\ \E list \in FlatLists : CallBuildCommentsTree(list)

TreeSpec == Init /\ [][TreeNext]_vars

----------------------------------------------------------------------------
(* ListPosts and ListComments over stores filled by several authors. The   *)
(* rows are created at one instant, so that the repository may hand them   *)
(* out in any order                                                        *)

PostFilters == [AuthorID : Optional(Users), WithComments : Optional(BOOLEAN)]

\* first and last as a caller may pass them: around 0 and around maxPageSize
PageSizes == {-1, 0, 1, maxPageSize, maxPageSize + 1}

\* after and before as a caller may pass them
SomeCursors == {NoCursor, encodeCursor(0, 1)}

CallListPosts(filter, pagination) ==
    /\ pending.op = "none"
    /\ \E order \in PostOrders(filter) :
          ListPosts(filter, pagination, order).res \in {OK, VALIDATION}
    /\ UNCHANGED vars

CallListComments(filter, pagination) ==
    /\ pending.op = "none"
    /\ \E order \in CommentOrders(filter) :
          ListComments(filter, pagination, order).res \in {OK, VALIDATION}
    /\ UNCHANGED vars

ListNext ==
    \/ \E author \in Users, enabled \in BOOLEAN :
         CallCreatePost("a", "a", author, enabled)
    \/ \E post \in PostIDs : CallCreateComment(post, NoParent, "a", 1)
    \/ NotifyAndReturn
    \/ \E filter \in PostFilters, first \in Optional({0, 1}) :
         CallListPosts(filter, [NoPagination EXCEPT !.First = first])
    \/ \E postFilter \in Optional(PostIDs), first \in Optional({0, 1}) :
         CallListComments(CommentsOf(postFilter), [NoPagination EXCEPT !.First = first])

ListSpec == Init /\ [][ListNext]_vars

----------------------------------------------------------------------------
(* DeletePost beside CreateComment calls on the memory repositories, each  *)
(* repository call being one step under the lock of its repository         *)

\* DeletePost from entry to the check of the author: GetPost reads the post
\* (CountByPostID, read for the log only, is left out)
DeletePostCheck(id, author) ==
    LET r == DeletePost(id, author)
    IN /\ calls.deleter.pc = "idle"
       /\ calls' = [calls EXCEPT !.deleter =
                       [pc |-> IF r.res = OK THEN "comments" ELSE "returned",
                        post |-> id, res |-> r.res]]
       /\ UNCHANGED <<tree, decoded, mu, running, updaters, procs, notifier, backend, posts, comments,
                      nextPostID, nextCommentID, now, pending>>

\* commentRepo.DeleteByPostID
DeletePostComments ==
    /\ calls.deleter.pc = "comments"
    /\ comments' = DeleteByPostID(comments, calls.deleter.post)
    /\ calls' = [calls EXCEPT !.deleter.pc = "post"]
    /\ UNCHANGED <<tree, decoded, mu, running, updaters, procs, notifier, backend, posts,
                   nextPostID, nextCommentID, now, pending>>

\* postRepo.Delete and the return
DeletePostRow ==
    LET post == calls.deleter.post
    IN /\ calls.deleter.pc = "post"
       /\ posts' = Drop(posts, {post})
       /\ comments' = PostDeleteCascade(comments, post)
       /\ calls' = [calls EXCEPT !.deleter.pc = "returned",
                                 !.deleter.res = IF post \in DOMAIN posts
                                                 THEN OK ELSE INTERNAL]
       /\ UNCHANGED <<tree, decoded, mu, running, updaters, procs, notifier, backend,
                      nextPostID, nextCommentID, now, pending>>

\* CreateComment from entry to the checks on the post: postRepo.GetByID
CreateCommentCheckPost(c, post, parent, author) ==
    LET res == IF ~CommentInputValid(post, "a", author) THEN VALIDATION
               ELSE CheckPost(post).res
    IN /\ calls.creators[c].pc = "idle"
       /\ calls' = [calls EXCEPT !.creators[c] =
                       [pc |-> IF res # OK THEN "returned"
                               ELSE IF parent = NoParent THEN "create" ELSE "parent",
                        post |-> post, parent |-> parent, author |-> author,
                        depth |-> 0, res |-> res]]
       /\ UNCHANGED <<tree, decoded, mu, running, updaters, procs, notifier, backend, posts, comments,
                      nextPostID, nextCommentID, now, pending>>

\* The checks on the parent: commentRepo.GetByID
CreateCommentCheckParent(c) ==
    LET call == calls.creators[c]
        res == CheckParent(call.post, call.parent).res
    IN /\ call.pc = "parent"
       /\ calls' = [calls EXCEPT !.creators[c] =
                       IF res # OK THEN [call EXCEPT !.pc = "returned", !.res = res]
                       ELSE [call EXCEPT !.pc = "create",
                                         !.depth = CommentDepth(call.parent)]]
       /\ UNCHANGED <<tree, decoded, mu, running, updaters, procs, notifier, backend, posts, comments,
                      nextPostID, nextCommentID, now, pending>>

\* NewComment, commentRepo.Create, which takes the comment whatever the post
\* store holds, and the return (nobody is subscribed)
CreateCommentStore(c) ==
    LET call == calls.creators[c]
    IN /\ call.pc = "create"
       /\ nextCommentID <= MaxComments
       /\ comments' = Put(comments, nextCommentID,
                          NewComment(call.post, call.parent, "a",
                                     call.author, call.depth))
       /\ nextCommentID' = nextCommentID + 1
       /\ calls' = [calls EXCEPT !.creators[c].pc = "returned"]
       /\ UNCHANGED <<tree, decoded, mu, running, updaters, procs, notifier, backend, posts,
                      nextPostID, now, pending>>

RaceNext ==
    \/ CallCreatePost("a", "a", 1, TRUE)
    \/ \E id \in PostIDs, author \in Users : DeletePostCheck(id, author)
    \/ DeletePostComments
    \/ DeletePostRow
    \/ \E c \in CreatorIDs, post \in PostIDs, parent \in {NoParent} \cup CommentIDs :
         CreateCommentCheckPost(c, post, parent, 1)
    \/ \E c \in CreatorIDs : CreateCommentCheckParent(c)
    \/ \E c \in CreatorIDs : CreateCommentStore(c)

RaceSpec == NotifierInit /\ [][RaceNext]_vars

----------------------------------------------------------------------------
(* decodeCursor applied to blobs, well-formed Base64 or not, of any short  *)
(* text                                                                    *)

Cursors ==
    [b64 : BOOLEAN,
     text : UNION {[1..n -> Chars] : n \in 0..MaxCursorLength}]

CallDecodeCursor(cursor) ==
    /\ decoded' = [cursor |-> cursor, res |-> decodeCursor(cursor)]
    /\ UNCHANGED <<tree, calls, mu, running, updaters, procs, notifier, backend, posts, comments,
                   nextPostID, nextCommentID, now, pending>>

\* one call in each behaviour
CursorNext == decoded.res = "none" /\ \E cursor \in Cursors : CallDecodeCursor(cursor)

CursorSpec == Init /\ [][CursorNext]_vars

----------------------------------------------------------------------------
(* Creations and updates while the clock advances *)

ClockNext ==
    \/ CallCreatePost("a", "a", 1, TRUE)
    \/ \E id \in PostIDs, author \in Users : CallUpdatePost(id, {}, {}, {}, author)
    \/ CallCreateComment(1, NoParent, "a", 1)
    \/ \E id \in CommentIDs, author \in Users : CallUpdateComment(id, {}, author)
    \/ NotifyAndReturn
    \/ Tick

ClockSpec == Init /\ [][ClockNext]_vars

----------------------------------------------------------------------------
(* Threads of comments by two users under one post: replies are written   *)
(* by anybody before the post has subscribers, and comments are deleted    *)
(* while somebody follows the post.                                        *)

ThreadNext ==
    \/ CallCreatePost("a", "a", 1, TRUE)
    \/ \E parent \in {NoParent} \cup DOMAIN comments, author \in Users :
         Subs(1) = {} /\ CallCreateComment(1, parent, "a", author)
    \/ \E id \in DOMAIN comments, author \in Users :
         Subs(comments[id].PostID) # {} /\ CallDeleteComment(id, author)
    \/ NotifyAndReturn
    \/ pending.op = "none" /\ SubscribeToComments(1, FALSE)
    \/ \E sub \in SubIDs : Receive(sub)

ThreadSpec == Init /\ [][ThreadNext]_vars

----------------------------------------------------------------------------
(* Subscribers of one post that never unsubscribe and whose contexts stay  *)
(* live, a caller of Publish, consumers that receive, and the cleanup      *)
(* goroutine                                                               *)

ReapNext ==
    \/ SubscribeToComments(1, FALSE)
    \/ Publish(1, 1)
    \/ \E sub \in SubIDs : PublishSend(1, sub)
    \/ PublishTouch(1)
    \/ PublishMetrics(1)
    \/ \E sub \in SubIDs : Receive(sub)
    \/ Tick
    \/ cleanupIdleSubscribers

ReapSpec == NotifierInit /\ [][ReapNext]_vars

----------------------------------------------------------------------------
(* The subscription service with s.mu written out: every method takes the  *)
(* lock, runs its critical section and releases it; notifySubscribers      *)
(* copies under RLock, sends outside the lock and takes Lock again for     *)
(* LastSeen and for the counters. Nobody has to receive.                   *)

\* What the calls around s.mu leave alone
lockFrame == <<backend, posts, comments, nextPostID, nextCommentID, now, pending,
               publishers, monitors, received, emitted, snapshotSum, cleanups,
               tree, decoded, calls, updaters>>

\* The calls under way, by method
Under(op) == {g \in Goroutines : running[g].op = op}

\* A goroutine enters SubscribeToComments, Unsubscribe, Publish,
\* cleanupIdleSubscribers (the one cleanup goroutine) or Close (once, by
\* Manager.Close) and reaches its first s.mu.Lock() or s.mu.RLock()
Enter(g, op, post, sub) ==
    /\ running[g].pc = "idle"
    /\ op = "subscribe" => nextSubID + Cardinality(Under("subscribe")) <= MaxSubscribers
    /\ op = "publish" =>
          metrics.MessagesSent + metrics.MessagesDropped
             + Cardinality(Under("publish")) < MaxMessages
    /\ op = "cleanup" => Under("cleanup") = {}
    /\ op = "close" => ~closed /\ Under("close") = {}
    /\ running' = [running EXCEPT ![g] =
                     [IdleGoroutine EXCEPT
                        !.pc = IF op = "publish" THEN "rlock" ELSE "lock",
                        !.op = op, !.post = post, !.sub = sub]]
    /\ UNCHANGED <<lockFrame, notifier, closed, mu>>

\* s.mu.Lock() returns: nobody holds the lock
Lock(g) ==
    /\ running[g].pc = "lock"
    /\ mu = Unlocked
    /\ mu' = [mu EXCEPT !.writer = g]
    /\ running' = [running EXCEPT ![g].pc = "locked"]
    /\ UNCHANGED <<lockFrame, notifier, closed>>

\* s.mu.RLock() returns: no writer holds the lock
RLock(g) ==
    /\ running[g].pc = "rlock"
    /\ mu.writer = Nil
    /\ mu' = [mu EXCEPT !.readers = @ \cup {g}]
    /\ running' = [running EXCEPT ![g].pc = "rlocked"]
    /\ UNCHANGED <<lockFrame, notifier, closed>>

\* The critical section of SubscribeToComments, then Unlock and the return
SubscribeSection(g) ==
    LET me == running[g]
    IN /\ me.pc = "locked" /\ me.op = "subscribe"
       /\ chans' = Put(chans, nextSubID, [buf |-> <<>>, closed |-> FALSE])
       /\ subscribers' = Put(subscribers, me.post,
                             Put(IF me.post \in DOMAIN subscribers
                                 THEN subscribers[me.post] ELSE EmptyMap,
                                 nextSubID, [LastSeen |-> now]))
       /\ metrics' = [metrics EXCEPT
                        !.TotalSubscribers = @ + 1,
                        !.ActiveConnections =
                            Put(@, me.post, Cardinality(Subs(me.post)) + 1),
                        !.SubscriptionsTotal = @ + 1]
       /\ nextSubID' = nextSubID + 1
       /\ mu' = Unlocked
       /\ running' = [running EXCEPT ![g] = IdleGoroutine]
       /\ UNCHANGED <<lockFrame, closed>>

\* The critical section of Unsubscribe, then the deferred Unlock and the return
UnsubscribeSection(g) ==
    LET me == running[g]
        u == UnsubscribeLocked(me.post, me.sub)
    IN /\ me.pc = "locked" /\ me.op = "unsubscribe"
       /\ chans' = u.chans
       /\ subscribers' = u.subscribers
       /\ metrics' = u.metrics
       /\ mu' = Unlocked
       /\ running' = [running EXCEPT ![g] = IdleGoroutine]
       /\ UNCHANGED <<lockFrame, nextSubID, closed>>

\* cleanupIdleSubscribers under s.mu, then the deferred Unlock and the return
CleanupSection(g) ==
    LET me == running[g]
        kept(p) == {s \in Subs(p) : ~Idle(p, s)}
        left == {p \in DOMAIN subscribers : kept(p) # {}}
    IN /\ me.pc = "locked" /\ me.op = "cleanup"
       /\ chans' = [s \in DOMAIN chans |->
                      IF s \in IdleSubscribers THEN safeCloseChannel(chans[s])
                      ELSE chans[s]]
       /\ subscribers' = [p \in left |-> [s \in kept(p) |-> subscribers[p][s]]]
       /\ metrics' = [metrics EXCEPT
                        !.TotalSubscribers = @ - Cardinality(IdleSubscribers),
                        !.ActiveConnections =
                            [p \in (DOMAIN @ \ DOMAIN subscribers) \cup left |->
                               IF p \in left THEN Cardinality(kept(p)) ELSE @[p]]]
       /\ mu' = Unlocked
       /\ running' = [running EXCEPT ![g] = IdleGoroutine]
       /\ UNCHANGED <<lockFrame, nextSubID, closed>>

\* Close under s.mu, then the deferred Unlock and the return
CloseSection(g) ==
    LET me == running[g]
    IN /\ me.pc = "locked" /\ me.op = "close"
       /\ chans' = [s \in DOMAIN chans |->
                      IF \E p \in DOMAIN subscribers : s \in Subs(p)
                      THEN safeCloseChannel(chans[s]) ELSE chans[s]]
       /\ subscribers' = EmptyMap
       /\ metrics' = [metrics EXCEPT !.TotalSubscribers = 0,
                                     !.ActiveConnections = EmptyMap]
       /\ closed' = TRUE
       /\ mu' = Unlocked
       /\ running' = [running EXCEPT ![g] = IdleGoroutine]
       /\ UNCHANGED <<lockFrame, nextSubID>>

\* notifySubscribers under RLock: the early return when the post has no
\* bucket, or the copy of its subscribers; RUnlock either way
CopySection(g) ==
    LET me == running[g]
    IN /\ me.pc = "rlocked"
       /\ mu' = [mu EXCEPT !.readers = @ \ {g}]
       /\ running' = [running EXCEPT ![g] =
                        IF Subs(me.post) = {} THEN IdleGoroutine
                        ELSE [me EXCEPT !.pc = "send", !.copy = Subs(me.post)]]
       /\ UNCHANGED <<lockFrame, notifier, closed>>

\* Where notifySubscribers goes after a subscriber of the copy: the next
\* one, or s.mu.Lock() before the counters
AfterSubscriber(copy) == IF copy = {} THEN "lock" ELSE "send"

\* select { case subscriber.Channel <- payload: ... default: ... } outside
\* the lock: the send on a closed channel panics, the send on a channel
\* with room goes through and the goroutine reaches s.mu.Lock() for
\* LastSeen, and a full channel takes the default case
SendOutsideLock(g, sub) ==
    LET me == running[g]
        rest == me.copy \ {sub}
    IN /\ me.pc = "send"
       /\ sub \in me.copy
       /\ IF chans[sub].closed
          THEN /\ running' = [running EXCEPT ![g].pc = "panic"]
               /\ chans' = chans
          ELSE IF CanSend(chans[sub])
          THEN /\ chans' = [chans EXCEPT ![sub].buf =
                              Enqueue(@, Payload(me.post, "CREATED",
                                                 ZeroComment(Nil, me.post)))]
               /\ running' = [running EXCEPT
                                ![g].pc = "lock", ![g].touch = sub,
                                ![g].copy = rest, ![g].sentCount = @ + 1]
          ELSE /\ chans' = chans
               /\ running' = [running EXCEPT
                                ![g].pc = AfterSubscriber(rest), ![g].copy = rest,
                                ![g].droppedCount = @ + 1]
       /\ UNCHANGED <<lockFrame, subscribers, metrics, nextSubID, closed, mu>>

\* sub.LastSeen = time.Now() under Lock if the subscriber is still
\* registered, then Unlock
TouchSection(g) ==
    LET me == running[g]
    IN /\ me.pc = "locked" /\ me.op = "publish" /\ me.touch # Nil
       /\ subscribers' = IF me.touch \in Subs(me.post)
                         THEN [subscribers EXCEPT ![me.post][me.touch].LastSeen = now]
                         ELSE subscribers
       /\ mu' = Unlocked
       /\ running' = [running EXCEPT ![g].pc = AfterSubscriber(me.copy),
                                     ![g].touch = Nil]
       /\ UNCHANGED <<lockFrame, chans, metrics, nextSubID, closed>>

\* The counters under Lock, then Unlock and the return of notifySubscribers
MetricsSection(g) ==
    LET me == running[g]
    IN /\ me.pc = "locked" /\ me.op = "publish" /\ me.touch = Nil
       /\ metrics' = [metrics EXCEPT !.MessagesSent = @ + me.sentCount,
                                     !.MessagesDropped = @ + me.droppedCount]
       /\ mu' = Unlocked
       /\ running' = [running EXCEPT ![g] = IdleGoroutine]
       /\ UNCHANGED <<lockFrame, subscribers, chans, nextSubID, closed>>

\* What a goroutine does once it holds the lock, up to its release
Section(g) ==
    \/ SubscribeSection(g)
    \/ UnsubscribeSection(g)
    \/ CleanupSection(g)
    \/ CloseSection(g)
    \/ CopySection(g)
    \/ TouchSection(g)
    \/ MetricsSection(g)

LockNext ==
    \/ \E g \in Goroutines : Enter(g, "subscribe", 1, Nil)
    \/ \E g \in Goroutines, sub \in SubIDs : Enter(g, "unsubscribe", 1, sub)
    \/ \E g \in Goroutines : Enter(g, "publish", 1, Nil)
    \/ \E g \in Goroutines : Enter(g, "cleanup", Nil, Nil)
    \/ \E g \in Goroutines : Enter(g, "close", Nil, Nil)
    \/ \E g \in Goroutines : Lock(g)
    \/ \E g \in Goroutines : RLock(g)
    \/ \E g \in Goroutines : Section(g)
    \/ \E g \in Goroutines, sub \in SubIDs : SendOutsideLock(g, sub)
    \/ \E sub \in SubIDs : Receive(sub)
    \/ Tick

LockSpec == NotifierInit /\ [][LockNext]_vars

\* The scheduler runs every goroutine that can take a step, and a goroutine
\* waiting in Lock or RLock gets the lock if it is free again and again
\* (sync.RWMutex hands the lock to waiters; a waiting writer holds back new
\* readers). Nobody has to enter a call, receive, or let time pass.
LockFairness ==
    \A g \in Goroutines :
       /\ SF_vars(Lock(g))
       /\ SF_vars(RLock(g))
       /\ WF_vars(Section(g))
       /\ WF_vars(\E sub \in SubIDs : SendOutsideLock(g, sub))

FairLockSpec == LockSpec /\ LockFairness

----------------------------------------------------------------------------
(* UpdatePost calls beside each other (ToggleComments is UpdatePost with   *)
(* CommentsEnabled alone): GetPost hands each call its own copy of the     *)
(* row, and postRepo.Update writes the changed copy back                   *)

\* UpdatePost from entry to the check of the author: input.Validate, the id
\* checks, GetPost and the comparison of the author
UpdatePostRead(u, id, title, content, enabled, author) ==
    LET r == UpdatePost(id, title, content, enabled, author)
    IN /\ updaters[u].pc = "idle"
       /\ updaters' = [updaters EXCEPT ![u] =
                         IF r.res # OK
                         THEN [IdleUpdater EXCEPT !.pc = "done", !.id = id, !.res = r.res]
                         ELSE [pc |-> "read", id |-> id, title |-> title,
                               content |-> content, enabled |-> enabled,
                               post |-> {posts[id]}, res |-> "none"]]
       /\ UNCHANGED <<tree, decoded, calls, mu, running, procs, notifier, backend,
                      posts, comments, nextPostID, nextCommentID, now, pending>>

\* existingPost.Update(input), postRepo.Update and the return
UpdatePostWrite(u) ==
    LET me == updaters[u]
        existingPost == CHOOSE p \in me.post : TRUE
    IN /\ me.pc = "read"
       /\ posts' = IF me.id \in DOMAIN posts
                   THEN PostRepoUpdate(posts, me.id,
                                       PostUpdate(existingPost, me.title, me.content,
                                                  me.enabled))
                   ELSE posts
       /\ updaters' = [updaters EXCEPT
                         ![u].pc = "done",
                         ![u].res = IF me.id \in DOMAIN posts THEN OK
                                    ELSE IF backend = "sql" THEN NOT_FOUND
                                    ELSE INTERNAL]
       /\ UNCHANGED <<tree, decoded, calls, mu, running, procs, notifier, backend,
                      comments, nextPostID, nextCommentID, now, pending>>

UpdateNext ==
    \/ CallCreatePost("a", "a", 1, TRUE)
    \/ \E u \in UpdaterIDs, id \in PostIDs, author \in Users,
          title \in {{}, {" b "}}, enabled \in {{}, {FALSE}} :
         UpdatePostRead(u, id, title, {}, enabled, author)
    \/ \E u \in UpdaterIDs : UpdatePostWrite(u)

UpdateSpec == Init /\ [][UpdateNext]_vars

----------------------------------------------------------------------------
(* Properties of the stores and the handlers *)

\* A handler outcome that wrote nothing and published nothing
Untouched(r) ==
    r.posts = posts /\ r.comments = comments /\ r.payload = NoPayload

\* Inputs that pass validation
GoodContents == {"a", " a ", " b "}
GoodUpdates == {{}, {"a"}, {" a "}, {" b "}}

\* C1: after any sequence of successful and failed comment calls, every
\* stored comment without a parent has depth 0, and every stored comment
\* whose parent is stored too has the parent's depth plus one and the
\* parent's post.
C1_DepthFollowsParent ==
    \A c \in DOMAIN comments :
        /\ comments[c].ParentID = NoParent => comments[c].Depth = 0
        /\ comments[c].ParentID \in DOMAIN comments =>
              /\ comments[c].Depth = comments[comments[c].ParentID].Depth + 1
              /\ comments[c].PostID = comments[comments[c].ParentID].PostID

\* A reply is stored under its stored parent after another comment was
\* deleted.
C1_Witness ==
    /\ \E c \in DOMAIN comments : comments[c].ParentID \in DOMAIN comments
    /\ Cardinality(DOMAIN comments) < nextCommentID - 1
    /\ pending.op = "none"

Retrievable(c) ==
    \/ GetComment(c).res = OK
    \/ \E postFilter \in Optional(PostIDs) :
          \E order \in CommentOrders(CommentsOf(postFilter)) :
             LET page == ListComments(CommentsOf(postFilter), NoPagination, order)
             IN \E i \in 1..Len(page.edges) : page.edges[i].Node = c
    \/ \E p \in PostIDs : c \in GetCommentsTree(p)

\* C3: once DeleteComment has succeeded, neither the target nor any of its
\* transitive descendants can be retrieved by GetComment, ListComments or
\* GetCommentsTree, on either backend. (The stores do not change between
\* the write of the call and its return.)
C3_DeleteCommentRemovesSubtree ==
    [][(pending.op = "none" /\ pending'.op = "DeleteComment") =>
          \A d \in Cascade(comments, {pending'.payload.Comment.ID}) :
              ~Retrievable(d)']_vars

\* C4: a successful DeletePost by the post's author leaves the post absent
\* from the post store and no comment with that post id in the comment
\* store; the comments of other posts are unchanged.
C4_DeletePostCascades ==
    /\ [](\A id \in DOMAIN posts : DeletePost(id, posts[id].AuthorID).res = OK)
    /\ [][\A id \in DOMAIN posts \ DOMAIN posts' :
            /\ \A c \in DOMAIN comments' : comments'[c].PostID # id
            /\ \A c \in DOMAIN comments :
                 comments[c].PostID # id =>
                    c \in DOMAIN comments' /\ comments'[c] = comments[c]
            /\ DOMAIN comments' \subseteq DOMAIN comments]_vars

\* A post was deleted that had comments, and a comment of another post is
\* still stored.
C4_Witness ==
    /\ \E id \in PostIDs : id < nextPostID /\ id \notin DOMAIN posts
    /\ \E c \in DOMAIN comments : comments[c].PostID \in DOMAIN posts
    /\ backend = "memory" =>
          \A c \in DOMAIN comments : comments[c].PostID \in DOMAIN posts
    /\ Cardinality(DOMAIN comments) < nextCommentID - 1

\* C5: a service lookup of a non-zero id that is absent from the store
\* (GetPost, GetComment, the fetch inside update and delete, the post and
\* parent lookups of CreateComment) returns NOT_FOUND on either backend.
C5_AbsentIsNotFound ==
    /\ \A id \in PostIDs \ DOMAIN posts :
         /\ GetPost(id).res = NOT_FOUND
         /\ \A a \in Users :
              /\ UpdatePost(id, {}, {}, {}, a).res = NOT_FOUND
              /\ DeletePost(id, a).res = NOT_FOUND
              /\ CreateComment(id, NoParent, "a", a).res = NOT_FOUND
    /\ \A id \in CommentIDs \ DOMAIN comments :
         /\ GetComment(id).res = NOT_FOUND
         /\ \A a \in Users :
              /\ UpdateComment(id, {}, a).res = NOT_FOUND
              /\ DeleteComment(id, a).res = NOT_FOUND
              /\ \A post \in DOMAIN posts :
                   posts[post].CommentsEnabled =>
                      CreateComment(post, id, "a", a).res = NOT_FOUND

C7_DisabledForbidden_AnyContent ==
    \A post \in DOMAIN posts, parent \in AnyParent, content \in Contents,
       author \in Users :
        ~posts[post].CommentsEnabled =>
            LET r == CreateComment(post, parent, content, author)
            IN r.res = FORBIDDEN /\ Untouched(r)

\* C7, amended: CreateComment with input that passes validation, against a
\* stored post whose comments_enabled flag is false, returns FORBIDDEN,
\* stores no comment and publishes no event, whatever the parent.
C7_DisabledForbidden ==
    \A post \in DOMAIN posts, parent \in AnyParent, content \in Contents,
       author \in Callers :
        (~posts[post].CommentsEnabled /\ CommentInputValid(post, content, author)) =>
            LET r == CreateComment(post, parent, content, author)
            IN r.res = FORBIDDEN /\ Untouched(r)

\* A post with comments switched off holds a comment, so that a stored
\* parent, an absent one and none can all be supplied.
C7_Witness ==
    \E c \in DOMAIN comments :
        /\ comments[c].PostID \in DOMAIN posts
        /\ ~posts[comments[c].PostID].CommentsEnabled
        /\ CommentIDs \ DOMAIN comments # {}
        /\ pending.op = "none"

\* C8: CreateComment whose parent is stored but belongs to another post
\* than the input's post (a stored post that takes comments, input that
\* passes validation) returns VALIDATION on field parent_id, stores nothing
\* and publishes no event.
C8_ParentOfOtherPost ==
    \A post \in DOMAIN posts, parent \in DOMAIN comments,
       content \in GoodContents, author \in Users :
        (posts[post].CommentsEnabled /\ comments[parent].PostID # post) =>
            LET r == CreateComment(post, parent, content, author)
            IN r.res = VALIDATION /\ r.field = "parent_id" /\ Untouched(r)

\* A post that takes comments is stored next to a comment of another post.
C8_Witness ==
    \E post \in DOMAIN posts, parent \in DOMAIN comments :
        /\ posts[post].CommentsEnabled
        /\ comments[parent].PostID # post
        /\ pending.op = "none"

----------------------------------------------------------------------------
(* Properties of the notification of comment mutations *)

\* The repository write behind a payload is in the comment store
WriteVisible(p) ==
    IF p.ActionType = "DELETED" THEN p.Comment.ID \notin DOMAIN comments
    ELSE /\ p.Comment.ID \in DOMAIN comments
         /\ WithID(p.Comment.ID, comments[p.Comment.ID]) = p.Comment

\* A comment mutation hands a payload of the given type to the notifier
\* exactly when it returns without error
Publishes(r, action, post) ==
    IF r.res = OK
    THEN r.payload.ActionType = action /\ r.payload.PostID = post
    ELSE Untouched(r)

\* C9: CreateComment, UpdateComment and DeleteComment publish a CREATED,
\* UPDATED, DELETED payload to the comment's post exactly when the
\* repository write succeeded, after that write, and before the call
\* returns the payload is enqueued on every subscriber of that post whose
\* channel has free capacity.
C9_PublishAfterWrite ==
    /\ [](IF pending.op # "none" THEN WriteVisible(pending.payload)
          ELSE /\ \A post \in PostIDs :
                     /\ Publishes(CreateComment(post, NoParent, "", 1), "CREATED", post)
                     /\ \A parent \in {NoParent} \cup DOMAIN comments :
                          Publishes(CreateComment(post, parent, "a", 1), "CREATED", post)
               /\ \A id \in DOMAIN comments :
                     /\ Publishes(UpdateComment(id, {" "}, 1), "UPDATED",
                                  comments[id].PostID)
                     /\ \A author \in Users :
                          /\ Publishes(UpdateComment(id, {" b "}, author), "UPDATED",
                                       comments[id].PostID)
                          /\ Publishes(DeleteComment(id, author), "DELETED",
                                       comments[id].PostID))
    /\ [][(comments' # comments /\ posts' = posts) =>
            pending.op = "none" /\ pending'.op # "none"]_vars
    /\ [][(pending.op # "none" /\ pending'.op = "none") =>
            /\ \A s \in Subs(pending.payload.PostID) :
                 Len(chans[s].buf) < channelSize =>
                    chans'[s].buf = Append(chans[s].buf, pending.payload)
            /\ \A s \in DOMAIN chans \ Subs(pending.payload.PostID) :
                 chans'[s] = chans[s]]_vars

\* A mutation has returned and each of the two subscribers of its post
\* holds its payload.
C9_Witness ==
    /\ pending.op = "none"
    /\ \E p \in PostIDs :
          /\ Cardinality(Subs(p)) = 2
          /\ \A s \in Subs(p) :
                chans[s].buf # <<>> /\ Head(chans[s].buf).PostID = p

\* C10: publishing to a subscriber whose channel is full skips the send
\* without waiting: the channel is unchanged, messages_dropped grows by one
\* for it, messages_sent grows only by the sends that went through, and the
\* publish returns whether or not a consumer receives.
C10_FullChannelSkipped ==
    /\ [][(pending.op # "none" /\ pending'.op = "none") =>
            LET subs == Subs(pending.payload.PostID)
                full == {s \in subs : Len(chans[s].buf) >= channelSize}
            IN /\ \A s \in full : chans'[s] = chans[s]
               /\ metrics'.MessagesDropped = metrics.MessagesDropped + Cardinality(full)
               /\ metrics'.MessagesSent = metrics.MessagesSent + Cardinality(subs \ full)]_vars
    /\ [](pending.op # "none" => ENABLED NotifyAndReturn)

\* A publish has returned with a drop counted, and the subscriber's channel
\* is still full of what it held before.
C10_Witness ==
    /\ pending.op = "none"
    /\ metrics.MessagesDropped > 0
    /\ \E p \in PostIDs : \E s \in Subs(p) : Len(chans[s].buf) = channelSize

----------------------------------------------------------------------------
(* Properties of the notifier under concurrent callers *)

\* Every caller of Publish is outside notifySubscribers
AllReturned == \A p \in PubIDs : publishers[p].pc = "idle"

\* C11: once the concurrent publishes have all returned, whatever
\* subscriptions were made meanwhile, messages_sent + messages_dropped
\* equals the number of subscribers each publish copied under its read
\* lock, summed over the publishes.
C11_SentPlusDroppedIsSnapshots ==
    AllReturned => metrics.MessagesSent + metrics.MessagesDropped = snapshotSum

\* Both callers have published, two subscribers were copied by one publish,
\* a payload was dropped, and everybody has returned.
C11_Witness ==
    /\ AllReturned
    /\ \A p \in PubIDs : emitted[p] # <<>>
    /\ snapshotSum > Cardinality(Published)
    /\ metrics.MessagesDropped > 0

\* C12: in every state reached by subscribing, unsubscribing, cancelling
\* contexts, publishing, cleanup passes and Close, total_subscribers is the
\* number of subscriber records over all post buckets, so HealthCheck
\* returns no error.
C12_CounterMatchesRegistry ==
    /\ metrics.TotalSubscribers = Cardinality(Registered)
    /\ HealthCheck = OK

\* Somebody is registered after Close has returned, a cleanup pass has run
\* and a cancelled context has unsubscribed its subscriber.
C12_Witness ==
    /\ closed
    /\ cleanups > 0
    /\ \E s \in DOMAIN monitors : monitors[s].pc = "returned"
    /\ metrics.TotalSubscribers > 0

\* C13: when Close returns, every channel SubscribeToComments ever returned
\* is closed, whatever it still held, the registry is empty and
\* total_subscribers is 0.
C13_CloseClosesEveryChannel ==
    [][(~closed /\ closed') =>
         /\ \A s \in DOMAIN chans : chans'[s].closed
         /\ subscribers' = EmptyMap
         /\ metrics'.TotalSubscribers = 0]_vars

\* C14: once the goroutine watching a cancelled context has run, its
\* subscriber is out of the registry and its channel is closed, and every
\* other subscriber is registered as before.
C14_CancelRemovesAndCloses ==
    /\ [](\A s \in DOMAIN monitors :
            monitors[s].pc = "returned" =>
               /\ <<monitors[s].post, s>> \notin Registered
               /\ chans[s].closed)
    /\ [][\A s \in DOMAIN monitors :
            (monitors[s].pc = "cancelled" /\ monitors'[s].pc = "returned") =>
               \A p \in DOMAIN subscribers : \A o \in Subs(p) \ {s} :
                  /\ p \in DOMAIN subscribers'
                  /\ o \in DOMAIN subscribers'[p]
                  /\ chans'[o] = chans[o]]_vars

\* C15: Unsubscribe for a pair that is not registered (unsubscribed before,
\* or a post or subscriber never seen) returns no error, changes no
\* channel, no registry entry and no counter, and does not call
\* safeCloseChannel.
C15_UnsubscribeIdempotent ==
    \A post \in AnyPostID, sub \in 0..MaxSubscribers :
       sub \notin Subs(post) =>
          LET u == UnsubscribeLocked(post, sub)
          IN /\ u.res = OK
             /\ u.chans = chans
             /\ u.subscribers = subscribers
             /\ u.metrics = metrics
             /\ ~u.closes

\* A subscriber was unsubscribed and its channel closed; another one is
\* still registered.
C15_Witness ==
    /\ \E s \in DOMAIN chans :
          /\ chans[s].closed
          /\ <<monitors[s].post, s>> \notin Registered
    /\ Registered # {}

\* The ids of the payloads a subscriber has taken and still has buffered
Delivered(s) ==
    LET q == received[s] \o chans[s].buf
    IN [i \in 1..Len(q) |-> q[i].Comment.ID]

\* Where the producer emitted id
EmitIndex(id) == CHOOSE k \in 1..Len(emitted[1]) : emitted[1][k] = id

C17_NoSendOnClosed ==
    \A p \in PubIDs : publishers[p].pc # "panic"

\* C18: once Close has returned, no cleanup pass runs.
C18_NoCleanupAfterClose ==
    [][closed => cleanups' = cleanups]_vars

\* C19: a cleanup pass removes exactly the subscribers idle for longer than
\* maxIdleTime, closes the channel of each and lowers total_subscribers by
\* their number; the others stay registered, their channels as they were.
C19_CleanupRemovesIdle ==
    [][cleanups' # cleanups =>
         /\ \A p \in DOMAIN subscribers : \A s \in Subs(p) :
               IF Idle(p, s)
               THEN /\ p \in DOMAIN subscribers' => s \notin DOMAIN subscribers'[p]
                    /\ chans'[s].closed
               ELSE /\ p \in DOMAIN subscribers'
                    /\ s \in DOMAIN subscribers'[p]
                    /\ subscribers'[p][s] = subscribers[p][s]
                    /\ chans'[s] = chans[s]
         /\ metrics'.TotalSubscribers =
               metrics.TotalSubscribers - Cardinality(IdleSubscribers)]_vars

----------------------------------------------------------------------------
(* Properties of BuildCommentsTree *)

\* The ids of a list of comments, in order
IDsOf(list) == [i \in 1..Len(list) |-> list[i].ID]

\* The comments of a list that name p as parent, in order
WithParent(list, p) == SelectSeq(list, LAMBDA c : c.ParentID = p)

\* C20: the roots are the comments without parent, in input order; the
\* children of a comment are the comments of the list that name it as
\* parent, in input order; a comment whose parent is not in the list is
\* nowhere in the result; the chain C1, C2 under C1, C3 under C2 gives the
\* single root C1 with children [C2], C2 with [C3] and C3 with none.
C20_TreeShape ==
    LET list == tree.flat
        ids == {list[i].ID : i \in 1..Len(list)}
    IN /\ tree.roots = IDsOf(WithParent(list, NoParent))
       /\ DOMAIN tree.children = ids
       /\ \A p \in ids : tree.children[p] = IDsOf(WithParent(list, p))
       /\ \A i \in 1..Len(list) :
             list[i].ParentID \notin ids \cup {NoParent} =>
                /\ \A k \in 1..Len(tree.roots) : tree.roots[k] # list[i].ID
                /\ \A p \in ids : \A k \in 1..Len(tree.children[p]) :
                      tree.children[p][k] # list[i].ID
       /\ list = <<[ID |-> 1, ParentID |-> NoParent], [ID |-> 2, ParentID |-> 1],
                   [ID |-> 3, ParentID |-> 2]>> =>
             /\ tree.roots = <<1>>
             /\ tree.children = (1 :> <<2>>) @@ (2 :> <<3>>) @@ (3 :> <<>>)

\* C21: the number of comments in FlattenCommentsTree(BuildCommentsTree(list))
\* is the number of comments of the list whose parent is null or is a
\* comment of the list.
C21_FlattenCountsAttached ==
    LET list == tree.flat
        ids == {list[i].ID : i \in 1..Len(list)}
    IN Len(tree.flattened) =
          Cardinality({i \in 1..Len(list) :
                         list[i].ParentID \in ids \cup {NoParent}})

C20_Witness ==
    /\ Len(tree.flat) = 3
    /\ \E i, j \in 1..3 : i < j /\ tree.flat[i].ParentID = tree.flat[j].ID
    /\ \E i \in 1..3 : tree.flat[i].ParentID = Nil
    /\ tree.roots # <<>>

----------------------------------------------------------------------------
(* Properties of ListPosts and ListComments *)

\* A pagination with first only
First(n) == [NoPagination EXCEPT !.First = {n}]

\* The posts / comments on a page
Nodes(page) == {page.edges[i].Node : i \in 1..Len(page.edges)}

\* hasNextPage of a page follows the rule for first and the count
NextPageRule(page, first, count) ==
    /\ page.res = OK
    /\ \A info \in page.pageInfo :
          /\ count <= first => ~info.HasNextPage
          /\ count > first /\ Len(page.edges) = first => info.HasNextPage

\* C23: ListPosts and ListComments called with first in 0..100 and any
\* filter: when the count of the filter is at most first, hasNextPage is
\* false; otherwise hasNextPage is true whenever the number of returned
\* edges equals first.
C23_HasNextPage ==
    \A first \in (0 .. (MaxComments + 1)) \cup {maxPageSize} :
       /\ \A filter \in PostFilters : \A order \in PostOrders(filter) :
             NextPageRule(ListPosts(filter, First(first), order), first,
                          PostCount(PostFilterToRepo(filter, First(first))))
       /\ \A postFilter \in Optional(PostIDs) :
             \A order \in CommentOrders(CommentsOf(postFilter)) :
                NextPageRule(ListComments(CommentsOf(postFilter), First(first), order),
                             first,
                             CommentCount(CommentFilterToRepo(CommentsOf(postFilter),
                                                              First(first))))

\* A page without edges and with a pageInfo
EmptyPage(page) == page.res = OK /\ page.edges = <<>> /\ page.pageInfo # {}

\* C24: ListPosts and ListComments called with first = 0 return zero edges
\* and a non-null pageInfo, whatever the store holds, on both backends.
C24_FirstZeroIsEmpty ==
    /\ \A filter \in PostFilters : \A order \in PostOrders(filter) :
          EmptyPage(ListPosts(filter, First(0), order))
    /\ \A postFilter \in Optional(PostIDs) :
          \A order \in CommentOrders(CommentsOf(postFilter)) :
             EmptyPage(ListComments(CommentsOf(postFilter), First(0), order))

\* The stored posts that satisfy every supplied field of a post filter
Satisfying(filter) ==
    {id \in DOMAIN posts :
        /\ \A a \in filter.AuthorID : posts[id].AuthorID = a
        /\ \A w \in filter.WithComments : posts[id].CommentsEnabled = w}

\* C26: ListPosts, and the count it uses for pageInfo, return exactly the
\* stored posts that satisfy every supplied filter field (author and
\* comments-enabled), on both backends.
C26_PostFilterExact ==
    \A filter \in PostFilters : \A order \in PostOrders(filter) :
       /\ Nodes(ListPosts(filter, NoPagination, order)) = Satisfying(filter)
       /\ PostCount(PostFilterToRepo(filter, NoPagination))
             = Cardinality(Satisfying(filter))

\* first or last is out of [0, 100], or both are supplied
BadPagination(pagination) ==
    \/ \E n \in pagination.First \cup pagination.Last : n < 0 \/ n > maxPageSize
    \/ pagination.First # {} /\ pagination.Last # {}

\* What the claim asks of a list call for a pagination
ValidatedFirst(page, pagination) ==
    IF BadPagination(pagination)
    THEN page.res = VALIDATION /\ page.reads = 0 /\ page.pageInfo = {}
    ELSE page.res = OK /\ page.reads > 0 /\ page.pageInfo # {}

\* C27: ListPosts and ListComments return VALIDATION, without reading the
\* repository, when first or last is negative or greater than 100 or when
\* both are supplied; every other combination of first and last is accepted.
C27_PaginationValidated ==
    LET all == [AuthorID |-> {}, WithComments |-> {}]
    IN /\ \A order \in PostOrders(all) : \A first, last \in Optional(PageSizes) :
             LET pagination == [NoPagination EXCEPT !.First = first, !.Last = last]
             IN ValidatedFirst(ListPosts(all, pagination, order), pagination)
       /\ \A order \in CommentOrders(CommentsOf({})) :
             \A first, last \in Optional(PageSizes) :
                LET pagination == [NoPagination EXCEPT !.First = first, !.Last = last]
                IN ValidatedFirst(ListComments(CommentsOf({}), pagination, order),
                                  pagination)

\* Both stores hold rows when the lists are called with the paginations.
C27_Witness ==
    /\ posts # EmptyMap
    /\ comments # EmptyMap
    /\ pending.op = "none"
    /\ \E order \in PostOrders([AuthorID |-> {}, WithComments |-> {}]) :
          /\ ListPosts([AuthorID |-> {}, WithComments |-> {}],
                       [NoPagination EXCEPT !.First = {1}, !.Last = {1}], order).res
                = VALIDATION
          /\ ListPosts([AuthorID |-> {}, WithComments |-> {}],
                       First(maxPageSize), order).edges # <<>>

\* The paginations of the comparison: no size, first, last
SomeSizes ==
    {NoPagination, First(1), [NoPagination EXCEPT !.Last = {1}]}

\* after and before as supplied together: one of them, or both the same
CursorPairs ==
    {pair \in Optional(SomeCursors) \X Optional(SomeCursors) :
        /\ pair # <<{}, {}>>
        /\ pair[1] = {} \/ pair[2] = {} \/ pair[1] = pair[2]}

----------------------------------------------------------------------------
(* Properties of the timestamps *)

\* rows' follows rows as the claim asks: a new row has both instants equal,
\* a kept row keeps created_at and has updated_at no earlier
Stamped(rows, after) ==
    \A id \in DOMAIN after :
       IF id \in DOMAIN rows
       THEN /\ after[id].CreatedAt = rows[id].CreatedAt
            /\ after[id].UpdatedAt >= after[id].CreatedAt
       ELSE after[id].CreatedAt = after[id].UpdatedAt

----------------------------------------------------------------------------
(* Properties of DeletePost beside CreateComment *)

\* C28: on the in-memory backend, in every interleaving of DeletePost with
\* concurrent CreateComment calls, once every call has returned and
\* DeletePost has succeeded, no stored comment references the deleted post.
C28_DeletePostAtomic ==
    (/\ backend = "memory"
     /\ calls.deleter.pc = "returned"
     /\ calls.deleter.res = OK
     /\ \A c \in CreatorIDs : calls.creators[c].pc \in {"idle", "returned"})
    => \A id \in DOMAIN comments : comments[id].PostID # calls.deleter.post

----------------------------------------------------------------------------
(* Properties of decodeCursor *)

\* The part of a decoded text before its first '_', and the part after it
TimestampPart(text) == SubSeq(text, 1, Index(text, "_"))
IDPart(text) == SubSeq(text, Index(text, "_") + 2, Len(text))

\* A blob that is not valid Base64, or whose text lacks the '_', or whose
\* timestamp part is no base-10 integer, or whose id part is no identifier
Malformed(cursor) ==
    \/ ~cursor.b64
    \/ \A i \in 1..Len(cursor.text) : cursor.text[i] # "_"
    \/ ~IsDecimal(TimestampPart(cursor.text))
    \/ ~IsUUID(IDPart(cursor.text))

\* C29: decoding a malformed cursor returns an invalid-cursor error and never
\* crashes: a blob that is not valid Base64, a decoded text without the
\* '_' separator, a timestamp part that is not a base-10 integer, or an id
\* part that is not a valid identifier.
C29_MalformedCursorRejected ==
    (decoded.res # "none" /\ Malformed(decoded.cursor))
    => decoded.res \in {"invalid cursor", "invalid cursor timestamp",
                        "invalid cursor UUID"}

----------------------------------------------------------------------------
(* Properties of the order of the checks of UpdatePost *)

\* Titles that fail PostUpdateInput.Validate
BadTitles == {{""}, {" "}}

\* The outcome the claimed order of checks gives for an invalid title
ClaimedUpdateOutcome(id, author) ==
    IF id = Nil \/ author = Nil THEN VALIDATION
    ELSE IF id \notin DOMAIN posts THEN NOT_FOUND
    ELSE IF posts[id].AuthorID # author THEN FORBIDDEN
    ELSE VALIDATION

\* C31: UpdatePost checks zero id or zero author (VALIDATION), then
\* existence (NOT_FOUND), then ownership (FORBIDDEN), and only then the
\* input fields: with an invalid title a caller who is not the author
\* receives FORBIDDEN and a call on an absent post receives NOT_FOUND.
C31_UpdatePostCheckOrder ==
    \A id \in AnyPostID, author \in Callers, title \in BadTitles :
       UpdatePost(id, title, {}, {}, author).res = ClaimedUpdateOutcome(id, author)

----------------------------------------------------------------------------
(* Properties of the per-post connection counts *)

\* C32: in every state reached by subscribing, unsubscribing, cancelling
\* contexts, publishing, cleanup passes and Close, active_connections has
\* an entry exactly for the posts that have a bucket in the registry, the
\* entry is the number of subscribers of that bucket, and no bucket is
\* empty.
C32_ActiveConnectionsMatchRegistry ==
    /\ DOMAIN metrics.ActiveConnections = DOMAIN subscribers
    /\ \A p \in DOMAIN subscribers :
          /\ Subs(p) # {}
          /\ metrics.ActiveConnections[p] = Cardinality(Subs(p))

\* One post has lost its only subscriber and has no entry, while another
\* post still has one.
C32_Witness ==
    /\ \E s \in DOMAIN monitors :
          /\ chans[s].closed
          /\ monitors[s].post \notin DOMAIN subscribers
          /\ monitors[s].post \notin DOMAIN metrics.ActiveConnections
    /\ \E p \in DOMAIN metrics.ActiveConnections :
          metrics.ActiveConnections[p] > 0

----------------------------------------------------------------------------
(* Properties of DeleteComment on a thread *)

\* The comments a step removes from the store
Removed == DOMAIN comments \ DOMAIN comments'

\* C33: a successful DeleteComment hands the notifier one payload: it is
\* of type DELETED, names the target (the removed comment whose parent is
\* not removed with it) and the target's post, and every other field of
\* its comment is zero. Nothing is sent while the children are removed,
\* and the notification adds at most that one payload to a channel.
C33_OneDeletedPayload ==
    /\ [][(pending.op = "none" /\ pending'.op = "DeleteComment") =>
            LET target == pending'.payload.Comment.ID
            IN /\ target \in Removed
               /\ comments[target].ParentID \notin Removed
               /\ pending'.payload.ActionType = "DELETED"
               /\ pending'.payload.PostID = comments[target].PostID
               /\ pending'.payload.Comment =
                     [ID |-> target, PostID |-> comments[target].PostID,
                      ParentID |-> NoParent, Content |-> "", AuthorID |-> Nil,
                      Depth |-> 0, CreatedAt |-> 0, UpdatedAt |-> 0]
               /\ chans' = chans
               /\ metrics' = metrics]_vars
    /\ [][(pending.op = "DeleteComment" /\ pending'.op = "none") =>
            /\ Removed = {}
            /\ \A s \in DOMAIN chans :
                  chans'[s].buf = IF s \in Subs(pending.payload.PostID)
                                     /\ Len(chans[s].buf) < channelSize
                                  THEN Append(chans[s].buf, pending.payload)
                                  ELSE chans[s].buf
            /\ metrics'.MessagesSent + metrics'.MessagesDropped =
                  metrics.MessagesSent + metrics.MessagesDropped
                     + Cardinality(Subs(pending.payload.PostID))]_vars

\* The only mutation a subscriber was told of is a DeleteComment that
\* removed a comment together with a reply; the subscriber holds its
\* payload.
C33_Witness ==
    /\ pending.op = "none"
    /\ metrics.MessagesSent = 1
    /\ metrics.MessagesDropped = 0
    /\ Cardinality(DOMAIN comments) + 2 <= nextCommentID - 1
    /\ \E s \in DOMAIN chans :
          /\ chans[s].buf # <<>>
          /\ Head(chans[s].buf).ActionType = "DELETED"

----------------------------------------------------------------------------
(* Properties of the calls around s.mu *)

\* The goroutine is inside a call of the subscription service
Inside(g) == running[g].pc # "idle"

\* C34: under fair scheduling every call of SubscribeToComments,
\* Unsubscribe, Publish, cleanupIdleSubscribers and Close that has been
\* entered eventually returns, whether or not anybody receives.
C34_EveryCallReturns ==
    \A g \in Goroutines : Inside(g) ~> ~Inside(g)

\* Under the same scheduling no call stays in Lock, in RLock or inside a
\* critical section: every call that has been entered returns or ends in
\* the panic of a send on a closed channel, with s.mu released.
EveryCallLeavesTheLock ==
    /\ \A g \in Goroutines : Inside(g) ~> (~Inside(g) \/ running[g].pc = "panic")
    /\ [](\A g \in Goroutines :
            running[g].pc = "panic" => mu.writer # g /\ g \notin mu.readers)

----------------------------------------------------------------------------
(* Properties of UpdatePost beside UpdatePost *)

\* The call has returned without error
Updated(u) == updaters[u].pc = "done" /\ updaters[u].res = OK

\* The stored post shows what the call asked for
TookEffect(u) ==
    LET me == updaters[u]
    IN /\ me.id \in DOMAIN posts
       /\ \A t \in me.title : posts[me.id].Title = TrimSpace(t)
       /\ \A c \in me.content : posts[me.id].Content = TrimSpace(c)
       /\ \A e \in me.enabled : posts[me.id].CommentsEnabled = e

\* The two calls change different fields of one post
DifferentFields(u, v) ==
    /\ updaters[u].id = updaters[v].id
    /\ updaters[u].title = {} \/ updaters[v].title = {}
    /\ updaters[u].content = {} \/ updaters[v].content = {}
    /\ updaters[u].enabled = {} \/ updaters[v].enabled = {}

\* C35: when two UpdatePost calls by the author that change different
\* fields of a post (title by one, comments_enabled by the other) have both
\* returned without error, the stored post shows both changes.
C35_BothUpdatesTakeEffect ==
    \A u, v \in UpdaterIDs :
       (u # v /\ Updated(u) /\ Updated(v) /\ DifferentFields(u, v)) =>
          TookEffect(u) /\ TookEffect(v)

----------------------------------------------------------------------------
(* Properties of the ownership check of DeleteComment *)

\* C36: DeleteComment compares the caller with the author of the target
\* only: called by the target's author it succeeds and removes the target
\* and every direct child, whoever wrote the child; called by anybody else
\* it is refused even if the caller wrote every child.
C36_OwnershipOfTargetOnly ==
    \A id \in DOMAIN comments, caller \in Users :
       LET r == DeleteComment(id, caller)
       IN IF caller = comments[id].AuthorID
          THEN /\ r.res = OK
               /\ id \notin DOMAIN r.comments
               /\ \A c \in GetChildren(comments, id) : c \notin DOMAIN r.comments
               /\ \A c \in DOMAIN comments \ Cascade(comments, {id}) :
                     c \in DOMAIN r.comments /\ r.comments[c] = comments[c]
          ELSE r.res = FORBIDDEN /\ Untouched(r)

\* A stored comment has a reply written by another user.
C36_Witness ==
    /\ pending.op = "none"
    /\ \E id \in DOMAIN comments : \E c \in GetChildren(comments, id) :
          comments[c].AuthorID # comments[id].AuthorID

----------------------------------------------------------------------------
(* Properties of idleness *)

\* C37: LastSeen of a registered subscriber is written only after a send
\* to it went through (receiving from the channel does not count), and a
\* cleanup pass removes from the registry every subscriber whose LastSeen
\* is more than maxIdleTime old, although its context is live and whether
\* or not its consumer has taken everything from the channel.
C37_IdleSinceLastSend ==
    /\ [][\A <<p, s>> \in Registered :
            (s \in Subs(p)' /\ subscribers'[p][s].LastSeen # subscribers[p][s].LastSeen) =>
               /\ publishers[1].pc = "touch"
               /\ publishers[1].touch = s
               /\ subscribers'[p][s].LastSeen = now]_vars
    /\ [][cleanups' # cleanups =>
            \A <<p, s>> \in Registered :
               IF now - subscribers[p][s].LastSeen > maxIdleTime
               THEN s \notin Subs(p)'
               ELSE s \in Subs(p)']_vars

\* A cleanup pass has removed a subscriber whose context is live and whose
\* channel is empty, after a payload was sent.
C37_Witness ==
    /\ cleanups > 0
    /\ metrics.MessagesSent > 0
    /\ \E s \in DOMAIN monitors :
          /\ monitors[s].pc = "waiting"
          /\ <<monitors[s].post, s>> \notin Registered
          /\ chans[s].buf = <<>>

----------------------------------------------------------------------------
(* Properties of repeated listings *)

\* C38: on the memory repositories two ListPosts calls, and two
\* ListComments calls, with the same filter on the same store return the
\* same sequence of edges, whichever way the repository iterated its map
\* and sorted rows of equal created_at.
C38_ListingDeterministic ==
    backend = "memory" =>
       /\ \A filter \in PostFilters : \A one, other \in PostOrders(filter) :
             ListPosts(filter, NoPagination, one).edges
                = ListPosts(filter, NoPagination, other).edges
       /\ \A postFilter \in Optional(PostIDs) :
             \A one, other \in CommentOrders(CommentsOf(postFilter)) :
                ListComments(CommentsOf(postFilter), NoPagination, one).edges
                   = ListComments(CommentsOf(postFilter), NoPagination, other).edges

====
